---- MODULE Spec2Model ----
(***************************************************************************)
(* A model of the NAV ingestion pipeline of flexfunds/morningstar:         *)
(*   - the deduplicating persister (db_service.py, db_manager.py),         *)
(*   - the target resolver (db_manager.py, nav_processor.py),              *)
(*   - the concurrent collector (nav_data_collector.py),                   *)
(*   - the run orchestrator (nav_processor.py).                            *)
(***************************************************************************)
EXTENDS Integers, Sequences, FiniteSets, TLC

(***************************************************************************)
(* Bounds of the model.                                                    *)
(***************************************************************************)
\* rows in the whole input (all batches together) of a sequential persist
MaxRows == 3
\* rows in the batch of each of the two racing persists
RaceMaxRows == 2
\* invocations of persist on the same input (the first one and its re-runs)
MaxCalls == 2
\* rows the ledger may hold before the model stops inserting
MaxLedger == 8
\* tokens in a list filter spec
MaxTokens == 2
\* files of the matrix a collection fetches
MaxPairs == 3
\* files of the matrix a run of process_navs fetches
RunPairs == 3
\* runs of process_navs for the same date
MaxRuns == 2
\* the files one collection of SpecPool submits (15 in the code)
PoolTasks == 4
\* files one collection of SpecFetch fetches
FetchPairs == 3
\* files one pass of SpecPipe fetches
PipePairs == 2
\* files one run of SpecCleanup fetches
CleanupPairs == 2
\* files submitted by a collection whose batches are persisted
OrderPairs == 3
\* files of a collection whose artifacts go to the upload queue
UploadPairs == 2
\* files of a collection over raw tables with unreadable cells
RawPairs == 2

NULL == "NULL"
Procs == {1, 2}

(***************************************************************************)
(* The Catalog: the series table (models.py, class Series).  A row is      *)
(* keyed by isin and carries status, nav_frequency, product_type and       *)
(* series_number.  "X" never has a Catalog row.                            *)
(***************************************************************************)
DefaultCatalog ==
    [i \in {"A", "B"} |->
        IF i = "A"
        THEN [status |-> "ACTIVE", nav_frequency |-> "Daily",
              product_type |-> "Wrappers Hybrid", series_number |-> "S1"]
        ELSE [status |-> "INACTIVE", nav_frequency |-> "Weekly",
              product_type |-> "Loan", series_number |-> "S2"]]

VARIABLES
    catalog,    \* series table: isin -> Series row
    ledger,     \* nav_entries table: sequence of rows, the index is the id
    mgr,        \* per process: the frame of DBManager.save_nav_data
    sv,         \* per process: the frame of DatabaseService.save_nav_entries
    rsv,        \* the last call of a target resolver and its result
    col,        \* the frame of a collection: worker pool, futures, nav_dfs
    run,        \* the frame of NAVProcessor.process_navs and its history
    fix         \* the frame of DatabaseService.fix_missing_series_numbers

vars == <<catalog, ledger, mgr, sv, rsv, col, run, fix>>

(***************************************************************************)
(* Input rows.  A DataFrame row has the columns ISIN, NAV and              *)
(* 'Valuation Period-End Date'.  A date value is a timestamp counted in    *)
(* half days: 2 is day 1 at 00:00, 3 is day 1 at 12:00, 4 is day 2.        *)
(***************************************************************************)
Row(isin, ts, nav) == [ISIN |-> isin, Date |-> ts, NAV |-> nav]

\* pd.to_datetime(x).date(): the calendar day of a timestamp
DateOf(ts) == ts \div 2

\* float(row['NAV']): defined on numerals only, raises on anything else
IsFloat(s) == s \in {"10", "20"}
FloatOf(s) == CASE s = "10" -> 10 [] s = "20" -> 20 [] OTHER -> 0

(***************************************************************************)
(* The storage-level uniqueness constraint uix_nav_entry_isin_date.        *)
(***************************************************************************)
KeysOf(led) == {<<led[i].isin, led[i].nav_date>> : i \in DOMAIN led}

NoConstraint(led, e) == FALSE

UniqueViolation(led, e) == <<e.isin, e.nav_date>> \in KeysOf(led)

\* the table row an entry object is written as
TableRow(e) ==
    [isin |-> e.isin, nav_date |-> e.nav_date, nav_value |-> e.nav_value,
     distribution_type |-> e.distribution_type, emitter |-> e.emitter,
     series_number |-> e.series_number]

\* INSERT OR REPLACE: a row with the key of the entry is overwritten
RECURSIVE UpsertAll(_, _)
UpsertAll(led, es) ==
    IF es = <<>> THEN [ok |-> TRUE, table |-> led]
    ELSE LET e == Head(es)
             hit == {n \in DOMAIN led :
                        <<led[n].isin, led[n].nav_date>>
                            = <<e.isin, e.nav_date>>}
         IN  IF hit = {}
             THEN UpsertAll(Append(led, TableRow(e)), Tail(es))
             ELSE UpsertAll([n \in DOMAIN led |->
                                IF n \in hit THEN TableRow(e) ELSE led[n]],
                            Tail(es))

(***************************************************************************)
(* One INSERT statement per entry inside one transaction: the result is    *)
(* the new table, or ok = FALSE when some row violates the constraint      *)
(* (the transaction is then rolled back as a whole).                       *)
(***************************************************************************)
RECURSIVE InsertAll(_, _)
InsertAll(led, es) ==
    IF es = <<>> THEN [ok |-> TRUE, table |-> led]
    ELSE IF UniqueViolation(led, Head(es)) THEN [ok |-> FALSE, table |-> led]
    ELSE InsertAll(Append(led, TableRow(Head(es))), Tail(es))

(***************************************************************************)
(* save_nav_entries, lines 253-283: the classification of one row against  *)
(* the two snapshots, in the order of the code.                            *)
(***************************************************************************)
\* a query that keeps the identifiers of the Active instruments only
ActiveIsins(cat) == {i \in DOMAIN cat : cat[i].status = "ACTIVE"}

\* lines 233-236: every isin of the series table
ValidIsins(cat) == DOMAIN cat

EntryKey(row) == <<row.ISIN, DateOf(row.Date)>>

RowClass(row, valid_isins, existing_entries) ==
    IF EntryKey(row) \in existing_entries THEN "duplicate"
    ELSE IF row.ISIN \notin valid_isins THEN "invalid"
    ELSE IF ~IsFloat(row.NAV) THEN "error"
    ELSE "stage"

NewEntry(row, dist, emitter) ==
    [isin |-> row.ISIN, nav_date |-> DateOf(row.Date),
     nav_value |-> FloatOf(row.NAV), distribution_type |-> dist,
     emitter |-> emitter, series_number |-> NULL, id |-> 0]

RECURSIVE EntriesToAdd(_, _, _, _, _)
EntriesToAdd(df, valid_isins, existing_entries, dist, emitter) ==
    IF df = <<>> THEN <<>>
    ELSE LET rest == EntriesToAdd(Tail(df), valid_isins, existing_entries,
                                  dist, emitter)
         IN  IF RowClass(Head(df), valid_isins, existing_entries) = "stage"
             THEN <<NewEntry(Head(df), dist, emitter)>> \o rest
             ELSE rest

CountClass(df, valid_isins, existing_entries, c) ==
    Cardinality({i \in DOMAIN df :
                    RowClass(df[i], valid_isins, existing_entries) = c})

(***************************************************************************)
(* Frames.                                                                 *)
(***************************************************************************)
\* fix_missing_series_numbers has not been called
NoFix ==
    [pc |-> "idle", fixable_isins |-> <<>>, missing_isins |-> {}, i |-> 0,
     before |-> <<>>, missing_before |-> 0, updated_count |-> 0,
     error_count |-> 0, error |-> FALSE]

NoFrame ==
    [pc |-> "none", entries_to_add |-> <<>>, duplicates_count |-> 0,
     invalid_series_count |-> 0, added_count |-> 0, i |-> 0,
     existing_entries |-> {}]

IdleMgr(input, dist, budget) ==
    [pc |-> "idle", nav_dfs |-> input, dist |-> dist, k |-> 0,
     total_added |-> 0, total_duplicates |-> 0, total_invalids |-> 0,
     calls |-> 0, budget |-> budget, before |-> <<>>, snap |-> {},
     fell_back |-> FALSE, log |-> <<>>]

\* the record a finished invocation leaves in the history of its process
LogEntry(m, status, led) ==
    [status |-> status, added |-> m.total_added,
     duplicates |-> m.total_duplicates, invalids |-> m.total_invalids,
     before |-> m.before, after |-> led, snap |-> m.snap,
     fell_back |-> m.fell_back]

(***************************************************************************)
(* DBManager.save_nav_data, lines 138-140: a (re-)invocation of persist.   *)
(***************************************************************************)
StartPersist(p) ==
    /\ mgr[p].pc \in {"idle", "returned", "raised", "crashed"}
    /\ mgr[p].calls < mgr[p].budget
    /\ mgr' = [mgr EXCEPT ![p].pc = "loop", ![p].k = 1,
                          ![p].total_added = 0, ![p].total_duplicates = 0,
                          ![p].total_invalids = 0,
                          ![p].calls = @ + 1, ![p].before = ledger,
                          ![p].snap = {}, ![p].fell_back = FALSE]
    /\ UNCHANGED <<catalog, ledger, sv, rsv, col, run, fix>>

\* save_nav_entries returned `res` to save_nav_data (lines 146-150)
Returned(m, res) ==
    [m EXCEPT !.total_added = @ + res[1], !.total_duplicates = @ + res[2],
              !.total_invalids = @ + res[3], !.k = @ + 1]

(***************************************************************************)
(* save_nav_data line 142-147 entering save_nav_entries lines 233-288:     *)
(* the two membership reads and the classification loop.  With nothing     *)
(* staged the call returns at once (lines 290, 330-335).                   *)
(***************************************************************************)
Stage(p) ==
    /\ mgr[p].pc = "loop"
    /\ sv[p].pc = "none"
    /\ mgr[p].k <= Len(mgr[p].nav_dfs)
    /\ LET b == mgr[p].nav_dfs[mgr[p].k]
           valid_isins == ValidIsins(catalog)
           existing_entries == KeysOf(ledger)
           staged == EntriesToAdd(b.df, valid_isins, existing_entries,
                                  mgr[p].dist, b.emitter)
           dups == CountClass(b.df, valid_isins, existing_entries, "duplicate")
           invs == CountClass(b.df, valid_isins, existing_entries, "invalid")
       IN  IF b.df = <<>>
           THEN /\ mgr' = [mgr EXCEPT ![p].k = @ + 1]
                /\ UNCHANGED sv
           ELSE IF staged = <<>>
           THEN /\ mgr' = [mgr EXCEPT ![p] =
                             Returned([@ EXCEPT !.snap = existing_entries],
                                      <<0, dups, invs>>)]
                /\ UNCHANGED sv
           ELSE /\ sv' = [sv EXCEPT ![p] =
                            [pc |-> "bulk", entries_to_add |-> staged,
                             duplicates_count |-> dups,
                             invalid_series_count |-> invs,
                             added_count |-> 0, i |-> 0,
                             existing_entries |-> existing_entries]]
                /\ mgr' = [mgr EXCEPT ![p].snap = existing_entries]
    /\ UNCHANGED <<catalog, ledger, rsv, col, run, fix>>

(***************************************************************************)
(* save_nav_entries lines 290-300: bulk_save_objects + commit.  The        *)
(* objects stay transient: bulk_save_objects without return_defaults does  *)
(* not give them an identity key.                                          *)
(***************************************************************************)
BulkInsert(p) ==
    /\ sv[p].pc = "bulk"
    /\ Len(ledger) + Len(sv[p].entries_to_add) <= MaxLedger
    /\ LET r == InsertAll(ledger, sv[p].entries_to_add)
       IN  IF r.ok
           THEN /\ ledger' = r.table
                /\ sv' = [sv EXCEPT ![p].pc = "backfill"]
                /\ UNCHANGED mgr
           ELSE /\ ledger' = ledger
                /\ sv' = [sv EXCEPT ![p].pc = "fallback",
                                    ![p].added_count = 0, ![p].i = 1]
                /\ mgr' = [mgr EXCEPT ![p].fell_back = TRUE]
    /\ UNCHANGED <<catalog, rsv, col, run, fix>>

(***************************************************************************)
(* save_nav_entries lines 303-313: one iteration of the fallback loop,     *)
(* session.add + commit of one entry.  A committed entry is persistent:    *)
(* it has the identity key of its row.                                     *)
(***************************************************************************)
FallbackInsert(p) ==
    /\ sv[p].pc = "fallback"
    /\ sv[p].i <= Len(sv[p].entries_to_add)
    /\ Len(ledger) < MaxLedger
    /\ LET e == sv[p].entries_to_add[sv[p].i]
       IN  IF UniqueViolation(ledger, e)
           THEN /\ ledger' = ledger
                /\ sv' = [sv EXCEPT ![p].duplicates_count = @ + 1,
                                    ![p].i = @ + 1]
           ELSE /\ ledger' = Append(ledger, TableRow(e))
                /\ sv' = [sv EXCEPT ![p].added_count = @ + 1,
                                    ![p].i = @ + 1,
                                    ![p].entries_to_add[sv[p].i].id =
                                        Len(ledger) + 1]
    /\ UNCHANGED <<catalog, mgr, rsv, col, run, fix>>

\* save_nav_entries lines 315-318: keep the first added_count entries
FallbackDone(p) ==
    /\ sv[p].pc = "fallback"
    /\ sv[p].i > Len(sv[p].entries_to_add)
    /\ sv' = [sv EXCEPT ![p].pc = "backfill",
                        ![p].entries_to_add =
                            SubSeq(@, 1, sv[p].added_count)]
    /\ UNCHANGED <<catalog, ledger, mgr, rsv, col, run, fix>>

(***************************************************************************)
(* save_nav_entries lines 320-335: the second pass.  Every entry gets      *)
(* series_info.get(isin) and the list goes through bulk_save_objects       *)
(* again: an entry with an identity key is UPDATEd in its row, an entry    *)
(* without one is INSERTed as a new row.  One transaction: a constraint    *)
(* violation raises IntegrityError out of save_nav_entries and the         *)
(* uncommitted statements are rolled back.                                 *)
(***************************************************************************)
SeriesInfoGet(cat, isin) ==
    IF isin \in DOMAIN cat THEN cat[isin].series_number ELSE NULL

WithSeriesNumber(cat, es) ==
    [j \in DOMAIN es |->
        [es[j] EXCEPT !.series_number = SeriesInfoGet(cat, es[j].isin)]]

\* the UPDATE statements of the entries that have an identity key
Updated(led, es) ==
    [n \in DOMAIN led |->
        IF \E j \in DOMAIN es : es[j].id = n
        THEN LET j == CHOOSE j \in DOMAIN es : es[j].id = n
             IN  [led[n] EXCEPT !.series_number = es[j].series_number]
        ELSE led[n]]

\* the entries bulk_save_objects takes for new: those with no identity key
Transient(es) == SelectSeq(es, LAMBDA e : e.id = 0)

Backfill(p) ==
    /\ sv[p].pc = "backfill"
    /\ Len(ledger) + Len(sv[p].entries_to_add) <= MaxLedger
    /\ LET es == WithSeriesNumber(catalog, sv[p].entries_to_add)
           r == InsertAll(Updated(ledger, es), Transient(es))
           res == <<Len(es), sv[p].duplicates_count,
                    sv[p].invalid_series_count>>
       IN  IF r.ok
           THEN /\ ledger' = r.table
                /\ mgr' = [mgr EXCEPT ![p] = Returned(@, res)]
           ELSE /\ ledger' = ledger
                /\ mgr' = [mgr EXCEPT ![p].pc = "raised",
                             ![p].log = Append(@, LogEntry(mgr[p], "raised",
                                                           ledger))]
    /\ sv' = [sv EXCEPT ![p] = NoFrame]
    /\ UNCHANGED <<catalog, rsv, col, run, fix>>

\* save_nav_data lines 155-160: the loop is over, the totals are returned
Finish(p) ==
    /\ mgr[p].pc = "loop"
    /\ sv[p].pc = "none"
    /\ mgr[p].k > Len(mgr[p].nav_dfs)
    /\ mgr' = [mgr EXCEPT ![p].pc = "returned",
                 ![p].log = Append(@, LogEntry(mgr[p], "returned", ledger))]
    /\ UNCHANGED <<catalog, ledger, sv, rsv, col, run, fix>>

(***************************************************************************)
(* The process running persist dies between two statements; what it has    *)
(* committed stays, its open transaction is rolled back.                   *)
(***************************************************************************)
Crash(p) ==
    /\ mgr[p].pc = "loop"
    /\ mgr' = [mgr EXCEPT ![p].pc = "crashed",
                 ![p].log = Append(@, LogEntry(mgr[p], "crashed", ledger))]
    /\ sv' = [sv EXCEPT ![p] = NoFrame]
    /\ UNCHANGED <<catalog, ledger, rsv, col, run, fix>>

(***************************************************************************)
(* Inputs.                                                                 *)
(***************************************************************************)
EMITTERS == <<"ETPCAP2", "HFMX", "IACAP", "CIX", "DCXPD">>

\* sequences over S of length lo..hi
SeqsOf(S, lo, hi) == UNION {[1..n -> S] : n \in lo..hi}

\* the rows a sequential persist draws its batches from
SeqRows ==
    {Row("A", 2, "10"), Row("A", 3, "20"), Row("B", 2, "10"),
     Row("X", 2, "10"), Row("B", 4, "abc")}

\* the ways of cutting a list of rows into consecutive non-empty batches
RECURSIVE Splits(_)
Splits(flat) ==
    IF flat = <<>> THEN {<<>>}
    ELSE UNION {{<<SubSeq(flat, 1, j)>> \o rest :
                    rest \in Splits(SubSeq(flat, j + 1, Len(flat)))} :
                j \in 1..Len(flat)}

\* lists of non-empty batches with at most n rows in all
Inputs(rows, n) ==
    {[k \in DOMAIN dfs |-> [emitter |-> EMITTERS[k], df |-> dfs[k]]] :
        dfs \in UNION {Splits(flat) : flat \in SeqsOf(rows, 1, n)}}

\* the rows of the batch of racing process p: the NAV value tells the runs apart
RaceRows(p) ==
    {Row(i, 2, IF p = 1 THEN "10" ELSE "20") : i \in {"A", "B", "X"}}

RaceInputs(p) ==
    {<<[emitter |-> EMITTERS[p], df |-> df]>> :
        df \in SeqsOf(RaceRows(p), 1, RaceMaxRows)}

DistOf(p) == IF p = 1 THEN "morningstar" ELSE "six"

(***************************************************************************)
(* The target resolver.  A filter spec is None, one token or a list of     *)
(* tokens; a result is None (no restriction) or a non-empty set of isins.  *)
(***************************************************************************)
NoFilter == [kind |-> "none"]
StrFilter(s) == [kind |-> "str", token |-> s]
ListFilter(l) == [kind |-> "list", tokens |-> l]

None == [restricted |-> FALSE, isins |-> {}]
SetOf(S) == [restricted |-> TRUE, isins |-> S]

\* str.upper() and str.lower() on the texts of the model
Upper(s) ==
    CASE s \in {"daily", "Daily", "DAILY"} -> "DAILY"
      [] s \in {"weekly", "Weekly", "WEEKLY"} -> "WEEKLY"
      [] s \in {"monthly", "MONTHLY"} -> "MONTHLY"
      [] s \in {"wrappers_hybrid", "Wrappers_Hybrid"} -> "WRAPPERS_HYBRID"
      [] s \in {"loan", "Loan", "LOAN"} -> "LOAN"
      [] s \in {"Wrappers Hybrid", "wrappers hybrid"} -> "WRAPPERS HYBRID"
      [] OTHER -> s

Lower(s) ==
    CASE s \in {"daily", "Daily", "DAILY"} -> "daily"
      [] s \in {"weekly", "Weekly", "WEEKLY"} -> "weekly"
      [] s \in {"monthly", "MONTHLY"} -> "monthly"
      [] s \in {"wrappers_hybrid", "Wrappers_Hybrid"} -> "wrappers_hybrid"
      [] s \in {"loan", "Loan", "LOAN"} -> "loan"
      [] s \in {"Wrappers Hybrid", "wrappers hybrid"} -> "wrappers hybrid"
      [] s = "A" -> "a"
      [] s = "B" -> "b"
      [] s = "X" -> "x"
      [] OTHER -> s

\* column ILIKE '%pattern%': the pattern occurs in the text, case ignored;
\* a NULL column matches nothing
ILikeContains(text, pattern) ==
    /\ text # NULL
    /\ \/ Lower(text) = Lower(pattern)
       \/ Lower(pattern) = "loan" /\ text = "Hybrid Loan Note"

\* `if not isin_filter`: None, the empty string and the empty list
Falsy(f) ==
    \/ f.kind = "none"
    \/ f.kind = "str" /\ f.token = ""
    \/ f.kind = "list" /\ f.tokens = <<>>

FREQUENCIES == {"DAILY", "WEEKLY", "MONTHLY", "QUARTERLY"}

\* DBManager.get_isins_by_frequency
get_isins_by_frequency(cat, frequency) ==
    {i \in DOMAIN cat :
        /\ cat[i].nav_frequency # NULL
        /\ Upper(cat[i].nav_frequency) = Upper(frequency)
        /\ cat[i].status = "ACTIVE"}

\* DBManager.get_isins_by_product_type
get_isins_by_product_type(cat, product_type) ==
    {i \in DOMAIN cat :
        /\ ILikeContains(cat[i].product_type, product_type)
        /\ cat[i].status = "ACTIVE"}

\* a resolver that looks every literal identifier up in the Catalog
ValidatedTokenIsins(cat, item) ==
    IF Upper(item) \in FREQUENCIES
    THEN get_isins_by_frequency(cat, Upper(item))
    ELSE IF Lower(item) = "wrappers_hybrid"
    THEN get_isins_by_product_type(cat, "Wrappers Hybrid")
    ELSE IF Lower(item) = "loan"
    THEN get_isins_by_product_type(cat, "Loan")
    ELSE {item} \cap DOMAIN cat

\* DBManager.get_target_isins: what one token adds to target_isins
TokenIsins(cat, item) ==
    IF Upper(item) \in FREQUENCIES
    THEN get_isins_by_frequency(cat, Upper(item))
    ELSE IF Lower(item) = "wrappers_hybrid"
    THEN get_isins_by_product_type(cat, "Wrappers Hybrid")
    ELSE IF Lower(item) = "loan"
    THEN get_isins_by_product_type(cat, "Loan")
    ELSE {item}

Items(f) ==
    IF f.kind = "str" THEN {f.token}
    ELSE {f.tokens[k] : k \in DOMAIN f.tokens}

get_target_isins(cat, f) ==
    IF Falsy(f) THEN None
    ELSE LET target_isins == UNION {TokenIsins(cat, item) : item \in Items(f)}
         IN  IF target_isins # {} THEN SetOf(target_isins) ELSE None

\* NAVProcessor._get_isins_by_frequency
NAVProcessor_get_isins_by_frequency(cat, frequency) ==
    {i \in DOMAIN cat :
        /\ cat[i].nav_frequency # NULL
        /\ Lower(cat[i].nav_frequency) = Lower(Upper(frequency))
        /\ cat[i].status = "ACTIVE"}

\* NAVProcessor._get_target_isins: what one token adds to target_isins
NAVProcessor_TokenIsins(cat, item) ==
    IF Upper(item) \in FREQUENCIES
    THEN NAVProcessor_get_isins_by_frequency(cat, Upper(item))
    ELSE {item}

NAVProcessor_get_target_isins(cat, f) ==
    IF Falsy(f) THEN None
    ELSE LET target_isins ==
                 UNION {NAVProcessor_TokenIsins(cat, item) : item \in Items(f)}
         IN  IF target_isins # {} THEN SetOf(target_isins) ELSE None

NoCall == [by |-> "nobody", filter |-> NoFilter, result |-> None]

\* a caller resolves a filter spec through DBManager
ResolveByManager(f) ==
    /\ rsv = NoCall
    /\ rsv' = [by |-> "DBManager", filter |-> f,
               result |-> get_target_isins(catalog, f)]
    /\ UNCHANGED <<catalog, ledger, mgr, sv, col, run, fix>>

\* a caller resolves a filter spec through NAVProcessor
ResolveByProcessor(f) ==
    /\ rsv = NoCall
    /\ rsv' = [by |-> "NAVProcessor", filter |-> f,
               result |-> NAVProcessor_get_target_isins(catalog, f)]
    /\ UNCHANGED <<catalog, ledger, mgr, sv, col, run, fix>>

(***************************************************************************)
(* Collection.  The remote side answers each (emitter, file type) pair     *)
(* with "notfound" (a 550 reply), "fault" (any other error) or a table.    *)
(* A date cell is a timestamp, NaT when missing and BadDate when it is a   *)
(* text no date can be read from; a missing ISIN or NAV cell is NULL.      *)
(***************************************************************************)
NaT == 0
BadDate == -1

FILE_TYPES == <<"standard", "hybrid", "loan">>

\* NAVDataCollector._get_input_file_list: for emitter, for file_type
InputFileList ==
    [k \in 1..(Len(EMITTERS) * Len(FILE_TYPES)) |->
        [emitter |-> EMITTERS[((k - 1) \div Len(FILE_TYPES)) + 1],
         file_type |-> FILE_TYPES[((k - 1) % Len(FILE_TYPES)) + 1]]]

\* NAVProcessor._get_input_files: the five standard files, the five
\* hybrid files, the five loan files
NAVProcessor_InputFiles ==
    [k \in 1..(Len(EMITTERS) * Len(FILE_TYPES)) |->
        [emitter |-> EMITTERS[((k - 1) % Len(EMITTERS)) + 1],
         file_type |-> FILE_TYPES[((k - 1) \div Len(EMITTERS)) + 1]]]

FilesOf(impl) ==
    IF impl = "NAVDataCollector" THEN InputFileList
    ELSE NAVProcessor_InputFiles

NotFound == [kind |-> "notfound", rows |-> <<>>]
Fault == [kind |-> "fault", rows |-> <<>>]
Table(rows) == [kind |-> "table", rows |-> rows]
\* the server accepts nothing or stops sending: FTP_TLS is created without
\* a timeout, so connect, login or retrbinary block for as long as it lasts
Hang == [kind |-> "hang", rows |-> <<>>]

\* the value a finished future holds: a DataFrame or None
NoDf == [none |-> TRUE, df |-> <<>>]
Df(rows) == [none |-> FALSE, df |-> rows]

\* dropna(subset = ISIN, NAV, Valuation Period-End Date)
Complete(r) == r.ISIN # NULL /\ r.NAV # NULL /\ r.Date # NaT

\* NAVDataCollector._clean_dataframe on one row: to_datetime and
\* to_numeric with errors='coerce'
CleanRow(r) ==
    [r EXCEPT !.Date = IF @ = BadDate THEN NaT ELSE @,
              !.NAV = IF IsFloat(@) THEN @ ELSE NULL]

\* NAVDataCollector._process_ftp_file
ProcessFtpFile(answer, file_type) ==
    IF answer.kind # "table" THEN NoDf
    ELSE LET df == [k \in DOMAIN answer.rows |->
                       [ISIN |-> answer.rows[k].ISIN,
                        Date |-> CleanRow(answer.rows[k]).Date,
                        NAV |-> CleanRow(answer.rows[k]).NAV,
                        file_type |-> file_type]]
         IN  IF df = <<>> THEN NoDf ELSE Df(df)

\* NAVProcessor._process_ftp_file: to_datetime raises on a text that is no
\* date and the handler returns None; incomplete rows are dropped here
NAVProcessor_ProcessFtpFile(answer, file_type) ==
    IF answer.kind # "table" THEN NoDf
    ELSE IF \E k \in DOMAIN answer.rows : answer.rows[k].Date = BadDate
    THEN NoDf
    ELSE LET df == SelectSeq([k \in DOMAIN answer.rows |->
                                 CleanRow(answer.rows[k])], Complete)
         IN  IF df = <<>> THEN NoDf ELSE Df(df)

\* a test that takes every target, None too, for a restriction
AlwaysRestricted(t) == TRUE

\* `if target_isins:` / `if exclude_isins:` / `if file_type`
Truthy(t) == t.restricted /\ t.isins # {}

\* collect_nav_data lines 279-299: the filters on a fetched DataFrame
KeepRow(r, prm) ==
    /\ Complete(r)
    /\ DateOf(r.Date) = prm.target_date
    /\ Truthy(prm.target_isins) => r.ISIN \in prm.target_isins.isins
    /\ prm.exclude_isins # {} => r.ISIN \notin prm.exclude_isins
    /\ prm.file_type # NULL => r.file_type = prm.file_type

\* _process_nav_files lines 322-329: the filters on a fetched DataFrame
NAVProcessor_KeepRow(r, prm) ==
    /\ Truthy(prm.target_isins) => r.ISIN \in prm.target_isins.isins
    /\ prm.exclude_isins # {} => r.ISIN \notin prm.exclude_isins

Filtered(impl, df, prm) ==
    IF impl = "NAVDataCollector"
    THEN SelectSeq(df, LAMBDA r : KeepRow(r, prm))
    ELSE SelectSeq(df, LAMBDA r : NAVProcessor_KeepRow(r, prm))

Min(a, b) == IF a < b THEN a ELSE b

\* a pool as large as the configured number of workers
ConfiguredPool(max_workers) == max_workers

\* ThreadPoolExecutor(max_workers=min(3, self.max_workers))
PoolSize(max_workers) == Min(3, max_workers)

Params(date_ok, day, target, exclude, file_type, max_workers) ==
    [date_ok |-> date_ok, target_date |-> day, target_isins |-> target,
     exclude_isins |-> exclude, file_type |-> file_type,
     max_workers |-> max_workers]

NoParams == Params(TRUE, 1, None, {}, NULL, 5)

(***************************************************************************)
(* NAVProcessor.__init__ lines 46-53: the Drive service exists when a      *)
(* drive_config is given, and upload_queue is a Queue of the instance.     *)
(* The frame of the uploads holds the queue with its count of unfinished   *)
(* tasks, the position of the _upload_worker thread, and in `log` what the *)
(* worker did, in order.  STOP stands for the item ("STOP", None).         *)
(***************************************************************************)
STOP == 0

max_retries == 3

NoUpload ==
    [drive_service |-> FALSE, input_folder_id |-> FALSE,
     upload_queue |-> <<>>, unfinished_tasks |-> 0, pc |-> "off",
     item |-> STOP, retry_count |-> 0, log |-> <<>>]

WithDrive(input_folder_id) ==
    [NoUpload EXCEPT !.drive_service = TRUE,
                     !.input_folder_id = input_folder_id]

\* Queue.put
Put(u, item) ==
    [u EXCEPT !.upload_queue = Append(@, item), !.unfinished_tasks = @ + 1]

\* a worker whose finally clause is missing
TaskLeftOpen(u) == u

\* Queue.task_done
TaskDone(u) == [u EXCEPT !.unfinished_tasks = @ - 1]

Did(u, what) == [u EXCEPT !.log = Append(@, [file |-> u.item, what |-> what])]

\* _process_nav_files lines 289-293: the worker thread is started
ThreadStarted(u) == IF u.drive_service THEN [u EXCEPT !.pc = "get"] ELSE u

\* the frame of a collection over the first n files, before it is called
IdleCol(impl, n, remote, prm) ==
    [pc |-> "idle", impl |-> impl, n |-> n, remote |-> remote, prm |-> prm,
     task |-> [k \in 1..n |-> "queued"], slot |-> [k \in 1..n |-> NoDf],
     nav_dfs |-> <<>>, missing_files |-> <<>>, up |-> NoUpload]

NoCol == IdleCol("none", 0, <<>>, NoParams)

\* the frame once every file is submitted to the executor
Submitted(c, prm) ==
    [c EXCEPT !.pc = "collecting", !.prm = prm,
              !.task = [k \in 1..c.n |-> "queued"],
              !.slot = [k \in 1..c.n |-> NoDf],
              !.nav_dfs = <<>>, !.missing_files = <<>>,
              !.up = ThreadStarted(@)]

(***************************************************************************)
(* NAVDataCollector.collect_nav_data lines 250-269: the call.  A date_str  *)
(* that is no MMDDYYYY date raises ValueError before any fetch.            *)
(***************************************************************************)
CallCollect ==
    /\ col.impl = "NAVDataCollector"
    /\ col.pc = "idle"
    /\ col' = IF col.prm.date_ok THEN Submitted(col, col.prm)
              ELSE [col EXCEPT !.pc = "raised"]
    /\ UNCHANGED <<catalog, ledger, mgr, sv, rsv, run, fix>>

Running(c) == {k \in 1..c.n : c.task[k] = "running"}

\* a pool thread takes the next work item of the executor's queue
WorkerStart(k) ==
    /\ col.pc = "collecting"
    /\ col.task[k] = "queued"
    /\ \A j \in 1..(k - 1) : col.task[j] # "queued"
    /\ Cardinality(Running(col)) < PoolSize(col.prm.max_workers)
    /\ col' = [col EXCEPT !.task[k] = "running"]
    /\ UNCHANGED <<catalog, ledger, mgr, sv, rsv, run, fix>>

\* NAVProcessor._process_ftp_file lines 190-228: the file was read and
\* cleaned without an exception, so it is saved and put on the upload queue
SavedForUpload(c, k) ==
    /\ c.impl = "NAVProcessor"
    /\ c.up.drive_service
    /\ c.remote[k].kind = "table"
    /\ \A j \in DOMAIN c.remote[k].rows : c.remote[k].rows[j].Date # BadDate

\* _process_ftp_file returns: the future of the pair holds its result
WorkerFinish(k) ==
    /\ col.pc = "collecting"
    /\ col.task[k] = "running"
    /\ col.remote[k].kind # "hang"
    /\ LET ft == FilesOf(col.impl)[k].file_type
           res == IF col.impl = "NAVDataCollector"
                  THEN ProcessFtpFile(col.remote[k], ft)
                  ELSE NAVProcessor_ProcessFtpFile(col.remote[k], ft)
       IN  col' = [col EXCEPT !.task[k] = "done", !.slot[k] = res,
                              !.up = IF SavedForUpload(col, k)
                                     THEN Put(@, k) ELSE @]
    /\ UNCHANGED <<catalog, ledger, mgr, sv, rsv, run, fix>>

\* a loop body that leaves the loop at the first `df is None`
AbortOnMissing(c, k) ==
    [c EXCEPT !.task = [j \in 1..c.n |-> "consumed"],
              !.missing_files = Append(@, k)]

\* a loop body that submits the file again when its future brought None
ResubmitOnMissing(c, k) ==
    [c EXCEPT !.task[k] = "queued", !.missing_files = Append(@, k)]

\* the frame after the loop body of as_completed saw `df is None`
AfterMissing(c, k) ==
    [c EXCEPT !.task[k] = "consumed", !.missing_files = Append(@, k)]

\* the frame after the loop body filtered the DataFrame of file k
AfterFetched(c, k) ==
    LET df == Filtered(c.impl, c.slot[k].df, c.prm)
    IN  [c EXCEPT !.task[k] = "consumed",
                  !.nav_dfs =
                      IF df # <<>>
                      THEN Append(@, [emitter |-> FilesOf(c.impl)[k].emitter,
                                      df |-> df, file |-> k])
                      ELSE @]

\* one iteration of `for future in as_completed(future_to_file)`
Consume(k) ==
    /\ col.pc = "collecting"
    /\ col.task[k] = "done"
    /\ col' = IF col.slot[k].none THEN AfterMissing(col, k)
              ELSE AfterFetched(col, k)
    /\ UNCHANGED <<catalog, ledger, mgr, sv, rsv, run, fix>>

\* _process_nav_files lines 343-344: every future was consumed and the
\* pool is shut down; with an upload thread the sentinel is put
PutStop ==
    /\ col.pc = "collecting"
    /\ col.up.pc # "off"
    /\ \A k \in 1..col.n : col.task[k] = "consumed"
    /\ col' = [col EXCEPT !.pc = "joining", !.up = Put(@, STOP)]
    /\ UNCHANGED <<catalog, ledger, mgr, sv, rsv, run, fix>>

\* every future was consumed, the pool is shut down, nav_dfs is returned;
\* with an upload thread that is after upload_queue.join() (line 345)
CollectReturn ==
    /\ IF col.up.pc = "off"
       THEN /\ col.pc = "collecting"
            /\ \A k \in 1..col.n : col.task[k] = "consumed"
       ELSE /\ col.pc = "joining"
            /\ col.up.unfinished_tasks = 0
    /\ col' = [col EXCEPT !.pc = "returned"]
    /\ UNCHANGED <<catalog, ledger, mgr, sv, rsv, run, fix>>

(***************************************************************************)
(* NAVProcessor._upload_worker, lines 250-279.                             *)
(***************************************************************************)
\* lines 254-260 and 279: get blocks on an empty queue; STOP ends the
\* thread; a file with no input_folder_id configured is passed over; the
\* finally clause marks the item done
UploadGet ==
    /\ col.up.pc = "get"
    /\ col.up.upload_queue # <<>>
    /\ LET u == Did([col.up EXCEPT !.item = Head(col.up.upload_queue),
                                   !.upload_queue = Tail(@),
                                   !.retry_count = 0], "get")
       IN  col' = [col EXCEPT !.up =
                      IF u.item = STOP
                      THEN TaskDone(Did([u EXCEPT !.pc = "stopped"], "done"))
                      ELSE IF u.input_folder_id
                      THEN [u EXCEPT !.pc = "try"]
                      ELSE TaskDone(Did(u, "done"))]
    /\ UNCHANGED <<catalog, ledger, mgr, sv, rsv, run, fix>>

\* a worker that lets the last exception out of the loop: the finally
\* clause marks the item done and the thread ends
RaiseAfterFailure(u) ==
    LET v == [u EXCEPT !.retry_count = @ + 1]
    IN  IF v.retry_count = max_retries
        THEN TaskDone(Did([v EXCEPT !.pc = "stopped"], "done"))
        ELSE [v EXCEPT !.pc = "sleep"]

\* the frame after one failed call of upload_file (lines 271-277)
AfterFailure(u) ==
    LET v == [u EXCEPT !.retry_count = @ + 1]
    IN  IF v.retry_count = max_retries
        THEN TaskDone(Did([v EXCEPT !.pc = "get"], "done"))
        ELSE [v EXCEPT !.pc = "sleep"]

\* lines 262-270: one call of drive_service.upload_file, which returns
\* or raises
UploadAttempt(ok) ==
    /\ col.up.pc = "try"
    /\ col.up.retry_count < max_retries
    /\ col' = [col EXCEPT !.up =
                  IF ok
                  THEN TaskDone(Did(Did([@ EXCEPT !.pc = "get"], "ok"),
                                    "done"))
                  ELSE AfterFailure(Did(@, "fail"))]
    /\ UNCHANGED <<catalog, ledger, mgr, sv, rsv, run, fix>>

\* line 277: time.sleep(1)
UploadSleep ==
    /\ col.up.pc = "sleep"
    /\ col' = [col EXCEPT !.up = Did([@ EXCEPT !.pc = "try"], "sleep")]
    /\ UNCHANGED <<catalog, ledger, mgr, sv, rsv, run, fix>>

(***************************************************************************)
(* NAVProcessor.process_navs.  The frame keeps the arguments of the run,   *)
(* the step it is at and, in `log`, one report per finished run.           *)
(***************************************************************************)
IdleRun(filter, exclude, dist, max_workers, budget) ==
    [pc |-> "idle", isin_filter |-> filter, exclude_isins |-> exclude,
     distribution_type |-> dist, max_workers |-> max_workers,
     runs |-> 0, budget |-> budget, before |-> <<>>, cleaned |-> FALSE,
     log |-> <<>>]

NoRun == IdleRun(NoFilter, {}, "morningstar", 5, 0)

\* what a finished run leaves in the history
Report(r, c, m, status, reason, led) ==
    [status |-> status, reason |-> reason, nav_dfs |-> c.nav_dfs,
     missing_files |-> c.missing_files, target_isins |-> c.prm.target_isins,
     persist |-> m.pc, added |-> m.total_added,
     duplicates |-> m.total_duplicates, invalids |-> m.total_invalids,
     before |-> r.before, after |-> led, cleaned |-> TRUE]

\* an except clause that logs and raises but leaves the temporary files
FailedNoCleanup(r, c, m, reason, led) ==
    [r EXCEPT !.pc = "failed",
              !.log = Append(@, Report(r, c, m, "failed", reason, led))]

\* the except clause of process_navs, lines 708-711: log, cleanup, raise
Failed(r, c, m, reason, led) ==
    [r EXCEPT !.pc = "failed", !.cleaned = TRUE,
              !.log = Append(@, Report(r, c, m, "failed", reason, led))]

\* a check that lets every list through
NeverEmpty(nav_dfs) == FALSE

\* `if not nav_dfs` at line 633
IsEmpty(nav_dfs) == nav_dfs = <<>>

(***************************************************************************)
(* process_navs lines 613-632: the directories are emptied, the filter is  *)
(* resolved, the exclusion list is read and _process_nav_files submits     *)
(* its files.                                                              *)
(***************************************************************************)
RunStart ==
    /\ col.impl = "NAVProcessor"
    /\ run.pc \in {"idle", "succeeded", "failed"}
    /\ run.runs < run.budget
    /\ LET target_isins ==
               NAVProcessor_get_target_isins(catalog, run.isin_filter)
       IN  col' = Submitted(col, Params(TRUE, 1, target_isins,
                                        run.exclude_isins, NULL,
                                        run.max_workers))
    /\ run' = [run EXCEPT !.pc = "collecting", !.runs = @ + 1,
                          !.before = ledger, !.cleaned = FALSE]
    /\ mgr' = [mgr EXCEPT ![1] = IdleMgr(<<>>, run.distribution_type, 0)]
    /\ UNCHANGED <<catalog, ledger, sv, rsv, fix>>

\* process_navs lines 613-628: the Catalog query of _get_target_isins or
\* the read of the exclusion list raises before any file is fetched
RunResolveFails ==
    /\ col.impl = "NAVProcessor"
    /\ run.pc \in {"idle", "succeeded", "failed"}
    /\ run.runs < run.budget
    /\ mgr' = [mgr EXCEPT ![1] = IdleMgr(<<>>, run.distribution_type, 0)]
    /\ col' = [col EXCEPT !.pc = "idle", !.nav_dfs = <<>>,
                          !.missing_files = <<>>]
    /\ run' = Failed([run EXCEPT !.runs = @ + 1, !.before = ledger,
                                 !.cleaned = FALSE],
                     col', mgr'[1], "resolve", ledger)
    /\ UNCHANGED <<catalog, ledger, sv, rsv, fix>>

\* process_navs lines 631-634: _process_nav_files returned
RunCollected ==
    /\ run.pc = "collecting"
    /\ col.pc = "returned"
    /\ run' = IF IsEmpty(col.nav_dfs)
              THEN Failed(run, col, mgr[1], "empty", ledger)
              ELSE [run EXCEPT !.pc = "distributing"]
    /\ UNCHANGED <<catalog, ledger, mgr, sv, rsv, col, fix>>

(***************************************************************************)
(* process_navs lines 636-703: templates, email and Drive upload, then     *)
(* _save_to_database.  A template that cannot be read or written and an    *)
(* upload that fails raise out of the step.                                *)
(***************************************************************************)
RunDistribute ==
    /\ run.pc = "distributing"
    /\ \E ok \in BOOLEAN :
          IF ok
          THEN /\ run' = [run EXCEPT !.pc = "saving"]
               /\ mgr' = [mgr EXCEPT ![1] =
                             IdleMgr(col.nav_dfs, run.distribution_type, 1)]
          ELSE /\ run' = Failed(run, col, mgr[1], "distribution", ledger)
               /\ UNCHANGED mgr
    /\ UNCHANGED <<catalog, ledger, sv, rsv, col, fix>>

\* process_navs lines 703-706: _save_to_database returned, cleanup
RunSaved ==
    /\ run.pc = "saving"
    /\ mgr[1].pc = "returned"
    /\ run' = [run EXCEPT !.pc = "succeeded", !.cleaned = TRUE,
                 !.log = Append(@, Report(run, col, mgr[1], "succeeded",
                                          "none", ledger))]
    /\ UNCHANGED <<catalog, ledger, mgr, sv, rsv, col, fix>>

\* process_navs lines 703, 708-711: _save_to_database raised
RunSaveRaised ==
    /\ run.pc = "saving"
    /\ mgr[1].pc = "raised"
    /\ run' = Failed(run, col, mgr[1], "persist", ledger)
    /\ UNCHANGED <<catalog, ledger, mgr, sv, rsv, col, fix>>

(***************************************************************************)
(* SpecSeq: one process persists its input, and persists it again after    *)
(* it returned, raised or crashed.                                         *)
(***************************************************************************)
InitSeq ==
    /\ catalog = DefaultCatalog
    /\ fix = NoFix
    /\ ledger = <<>>
    /\ \E input \in Inputs(SeqRows, MaxRows) :
          mgr = [p \in Procs |->
                    IF p = 1 THEN IdleMgr(input, DistOf(p), MaxCalls)
                    ELSE IdleMgr(<<>>, DistOf(p), 0)]
    /\ sv = [p \in Procs |-> NoFrame]
    /\ rsv = NoCall
    /\ col = NoCol
    /\ run = NoRun

NextSeq ==
    \E p \in Procs :
        \/ StartPersist(p)
        \/ Stage(p)
        \/ BulkInsert(p)
        \/ FallbackInsert(p)
        \/ FallbackDone(p)
        \/ Backfill(p)
        \/ Finish(p)
        \/ Crash(p)

SpecSeq == InitSeq /\ [][NextSeq]_vars

(***************************************************************************)
(* SpecStage: persist calls against a ledger that already holds rows, one  *)
(* of them of an identifier the Catalog has lost since.                    *)
(***************************************************************************)
StoredRow(isin, day, value) ==
    [isin |-> isin, nav_date |-> day, nav_value |-> value,
     distribution_type |-> "morningstar", emitter |-> EMITTERS[1],
     series_number |-> NULL]

StageLedgers ==
    {<<>>, <<StoredRow("X", 1, 10)>>,
     <<StoredRow("A", 1, 20), StoredRow("X", 1, 10)>>}

InitStage ==
    /\ catalog = DefaultCatalog
    /\ fix = NoFix
    /\ ledger \in StageLedgers
    /\ \E input \in Inputs(SeqRows, MaxRows) :
          mgr = [p \in Procs |->
                    IF p = 1 THEN IdleMgr(input, DistOf(p), MaxCalls)
                    ELSE IdleMgr(<<>>, DistOf(p), 0)]
    /\ sv = [p \in Procs |-> NoFrame]
    /\ rsv = NoCall
    /\ col = NoCol
    /\ run = NoRun

SpecStage == InitStage /\ [][NextSeq]_vars

(***************************************************************************)
(* SpecStatus: save_nav_data against Catalogs whose instruments are        *)
(* Active, Inactive or Matured.                                            *)
(***************************************************************************)
StatusCatalogs ==
    {[i \in {"A", "B"} |->
         [DefaultCatalog[i] EXCEPT !.status = IF i = "A" THEN a ELSE b]] :
        a \in {"ACTIVE", "INACTIVE"}, b \in {"INACTIVE", "MATURED"}}

StatusRows == {Row("A", 2, "10"), Row("B", 2, "10"), Row("X", 2, "10")}

InitStatus ==
    /\ catalog \in StatusCatalogs
    /\ fix = NoFix
    /\ ledger = <<>>
    /\ \E input \in Inputs(StatusRows, MaxRows) :
          mgr = [p \in Procs |->
                    IF p = 1 THEN IdleMgr(input, DistOf(p), MaxCalls)
                    ELSE IdleMgr(<<>>, DistOf(p), 0)]
    /\ sv = [p \in Procs |-> NoFrame]
    /\ rsv = NoCall
    /\ col = NoCol
    /\ run = NoRun

SpecStatus == InitStatus /\ [][NextSeq]_vars

(***************************************************************************)
(* SpecRace: two processes persist one batch each against the same ledger, *)
(* their statements interleaved.                                           *)
(***************************************************************************)
InitRace ==
    /\ catalog = DefaultCatalog
    /\ fix = NoFix
    /\ ledger = <<>>
    /\ \E in1 \in RaceInputs(1), in2 \in RaceInputs(2) :
          mgr = [p \in Procs |->
                    IdleMgr(IF p = 1 THEN in1 ELSE in2, DistOf(p), MaxCalls)]
    /\ sv = [p \in Procs |-> NoFrame]
    /\ rsv = NoCall
    /\ col = NoCol
    /\ run = NoRun

NextRace ==
    \E p \in Procs :
        \/ StartPersist(p)
        \/ Stage(p)
        \/ BulkInsert(p)
        \/ FallbackInsert(p)
        \/ FallbackDone(p)
        \/ Backfill(p)
        \/ Finish(p)

SpecRace == InitRace /\ [][NextRace]_vars

(***************************************************************************)
(* SpecResolve: one of the two resolvers is called on a filter spec of    *)
(* at most MaxTokens tokens, over every Catalog of two series.             *)
(***************************************************************************)
Catalogs ==
    [{"A", "B"} ->
        [status : {"ACTIVE", "INACTIVE", "MATURED"},
         nav_frequency : {"Daily", "WEEKLY"},
         product_type : {"Wrappers Hybrid", "Hybrid Loan Note", "loan"},
         series_number : {"S1"}]]

FilterTokens ==
    {"daily", "Weekly", "monthly", "wrappers_hybrid", "Loan", "A", "X"}

FilterSpecs ==
    {NoFilter, StrFilter("")}
        \cup {StrFilter(t) : t \in FilterTokens}
        \cup {ListFilter(l) : l \in SeqsOf(FilterTokens, 0, MaxTokens)}

InitResolve ==
    /\ catalog \in Catalogs
    /\ fix = NoFix
    /\ ledger = <<>>
    /\ mgr = [p \in Procs |-> IdleMgr(<<>>, DistOf(p), 0)]
    /\ sv = [p \in Procs |-> NoFrame]
    /\ rsv = NoCall
    /\ col = NoCol
    /\ run = NoRun

NextResolve ==
    \E f \in FilterSpecs :
        \/ ResolveByManager(f)
        \/ ResolveByProcessor(f)

SpecResolve == InitResolve /\ [][NextResolve]_vars

(***************************************************************************)
(* SpecCollect: one collection over the first MaxPairs files of the        *)
(* matrix, by NAVDataCollector.collect_nav_data or by process_navs up to   *)
(* its check of the collected list, for every answer of the remote side.   *)
(***************************************************************************)
Answers ==
    {NotFound, Fault,
     Table(<<Row("A", 2, "10")>>),
     Table(<<Row("B", 2, "10"), Row("A", 4, "20")>>)}

\* the calls of collect_nav_data
CollectorCalls ==
    {Params(TRUE, 1, None, {}, NULL, 5),
     Params(TRUE, 1, SetOf({"A"}), {}, NULL, 2),
     Params(TRUE, 1, None, {"B"}, "standard", 1),
     Params(FALSE, 1, None, {}, NULL, 5)}

\* the filter specs process_navs is run with
RunFilters == {NoFilter, StrFilter("daily"), ListFilter(<<"A", "B">>)}

InitCollect ==
    /\ catalog = DefaultCatalog
    /\ fix = NoFix
    /\ ledger = <<>>
    /\ mgr = [p \in Procs |-> IdleMgr(<<>>, DistOf(p), 0)]
    /\ sv = [p \in Procs |-> NoFrame]
    /\ rsv = NoCall
    /\ \E remote \in [1..MaxPairs -> Answers] :
          \/ /\ \E prm \in CollectorCalls :
                   col = IdleCol("NAVDataCollector", MaxPairs, remote, prm)
             /\ run = NoRun
          \/ /\ col = IdleCol("NAVProcessor", MaxPairs, remote, NoParams)
             /\ \E f \in RunFilters, w \in {2, 5} :
                   run = IdleRun(f, {}, "morningstar", w, 1)

NextCollect ==
    \/ CallCollect
    \/ RunStart
    \/ \E k \in 1..MaxPairs :
          \/ WorkerStart(k)
          \/ WorkerFinish(k)
          \/ Consume(k)
    \/ CollectReturn
    \/ RunCollected

SpecCollect == InitCollect /\ [][NextCollect]_vars

(***************************************************************************)
(* SpecRun: process_navs is run, and run again for the same date against   *)
(* the same answers of the remote side, up to MaxRuns times.               *)
(***************************************************************************)
RunAnswers ==
    Answers \cup {Table(<<Row("B", 2, "10")>>),
                  Table(<<Row("A", 2, "10"), Row("A", 3, "20")>>)}

InitRun ==
    /\ catalog = DefaultCatalog
    /\ fix = NoFix
    /\ ledger = <<>>
    /\ mgr = [p \in Procs |-> IdleMgr(<<>>, DistOf(p), 0)]
    /\ sv = [p \in Procs |-> NoFrame]
    /\ rsv = NoCall
    /\ \E remote \in [1..RunPairs -> RunAnswers] :
          col = IdleCol("NAVProcessor", RunPairs, remote, NoParams)
    /\ \E f \in RunFilters : run = IdleRun(f, {}, "morningstar", 5, MaxRuns)

NextRun ==
    \/ RunStart
    \/ RunResolveFails
    \/ \E k \in 1..RunPairs :
          \/ WorkerStart(k)
          \/ WorkerFinish(k)
          \/ Consume(k)
    \/ CollectReturn
    \/ RunCollected
    \/ RunDistribute
    \/ StartPersist(1)
    \/ Stage(1)
    \/ BulkInsert(1)
    \/ FallbackInsert(1)
    \/ FallbackDone(1)
    \/ Backfill(1)
    \/ Finish(1)
    \/ RunSaved
    \/ RunSaveRaised

SpecRun == InitRun /\ [][NextRun]_vars

(***************************************************************************)
(* SpecCleanup: process_navs with no filter against remote sides that      *)
(* make a run end on each of its paths: nothing collected, a persist call  *)
(* that raises, a persist call that returns.                               *)
(***************************************************************************)
CleanupAnswers ==
    {NotFound, Table(<<Row("A", 2, "10")>>),
     Table(<<Row("A", 2, "10"), Row("A", 3, "20")>>)}

\* the ledger before the first run: empty, or one row of an earlier day
CleanupLedgers ==
    {<<>>,
     <<[isin |-> "B", nav_date |-> 0, nav_value |-> 10,
        distribution_type |-> "morningstar", emitter |-> EMITTERS[1],
        series_number |-> "S2"]>>}

InitCleanup ==
    /\ catalog = DefaultCatalog
    /\ fix = NoFix
    /\ ledger \in CleanupLedgers
    /\ mgr = [p \in Procs |-> IdleMgr(<<>>, DistOf(p), 0)]
    /\ sv = [p \in Procs |-> NoFrame]
    /\ rsv = NoCall
    /\ \E remote \in [1..CleanupPairs -> CleanupAnswers] :
          col = IdleCol("NAVProcessor", CleanupPairs, remote, NoParams)
    /\ run = IdleRun(NoFilter, {}, "morningstar", 5, MaxRuns)

NextCleanup ==
    \/ RunStart
    \/ RunResolveFails
    \/ \E k \in 1..CleanupPairs :
          \/ WorkerStart(k)
          \/ WorkerFinish(k)
          \/ Consume(k)
    \/ CollectReturn
    \/ RunCollected
    \/ RunDistribute
    \/ StartPersist(1)
    \/ Stage(1)
    \/ BulkInsert(1)
    \/ FallbackInsert(1)
    \/ FallbackDone(1)
    \/ Backfill(1)
    \/ Finish(1)
    \/ RunSaved
    \/ RunSaveRaised

SpecCleanup == InitCleanup /\ [][NextCleanup]_vars

(***************************************************************************)
(* SpecPool: one collection of PoolTasks files, more than the pool can     *)
(* run at once, for several configured values of max_workers.              *)
(***************************************************************************)
PoolAnswers == {NotFound, Table(<<Row("A", 2, "10")>>)}

PoolWorkers == {1, 2, 3, 5}

InitPool ==
    /\ catalog = DefaultCatalog
    /\ fix = NoFix
    /\ ledger = <<>>
    /\ mgr = [p \in Procs |-> IdleMgr(<<>>, DistOf(p), 0)]
    /\ sv = [p \in Procs |-> NoFrame]
    /\ rsv = NoCall
    /\ \E remote \in [1..PoolTasks -> PoolAnswers], w \in PoolWorkers :
          \/ /\ col = IdleCol("NAVDataCollector", PoolTasks, remote,
                              Params(TRUE, 1, None, {}, NULL, w))
             /\ run = NoRun
          \/ /\ col = IdleCol("NAVProcessor", PoolTasks, remote, NoParams)
             /\ run = IdleRun(NoFilter, {}, "morningstar", w, 1)

NextPool ==
    \/ CallCollect
    \/ RunStart
    \/ \E k \in 1..PoolTasks :
          \/ WorkerStart(k)
          \/ WorkerFinish(k)
          \/ Consume(k)
    \/ CollectReturn
    \/ RunCollected

SpecPool == InitPool /\ [][NextPool]_vars

(***************************************************************************)
(* SpecFetch: one collection against remote sides that answer or stay      *)
(* silent.  The pool threads and the consuming thread are operating-system *)
(* threads: a step that stays possible is eventually taken.                *)
(***************************************************************************)
FetchAnswers == {NotFound, Fault, Table(<<Row("A", 2, "10")>>), Hang}

InitFetch ==
    /\ catalog = DefaultCatalog
    /\ fix = NoFix
    /\ ledger = <<>>
    /\ mgr = [p \in Procs |-> IdleMgr(<<>>, DistOf(p), 0)]
    /\ sv = [p \in Procs |-> NoFrame]
    /\ rsv = NoCall
    /\ run = NoRun
    /\ \E remote \in [1..FetchPairs -> FetchAnswers], w \in {1, 5} :
          col = IdleCol("NAVDataCollector", FetchPairs, remote,
                        Params(TRUE, 1, None, {}, NULL, w))

NextFetch ==
    \/ CallCollect
    \/ \E k \in 1..FetchPairs :
          \/ WorkerStart(k)
          \/ WorkerFinish(k)
          \/ Consume(k)
    \/ CollectReturn

SpecFetch == InitFetch /\ [][NextFetch]_vars /\ WF_vars(NextFetch)

(***************************************************************************)
(* SpecPipe: the three components in sequence, as the Run Orchestrator     *)
(* uses them: DBManager.get_target_isins resolves the filter spec, its     *)
(* result is the target of NAVDataCollector.collect_nav_data, and the      *)
(* batches collected go to DBManager.save_nav_data.                        *)
(***************************************************************************)
PipeAnswers ==
    {NotFound,
     Table(<<Row("X", 2, "10")>>),
     Table(<<Row("B", 2, "10"), Row("A", 2, "10")>>),
     Table(<<Row("A", 2, "10"), Row("A", 3, "20"), Row("X", 4, "30")>>)}

PipeFilters ==
    {NoFilter, StrFilter(""), ListFilter(<<>>), StrFilter("X"),
     StrFilter("A"), StrFilter("daily"), ListFilter(<<"X", "weekly">>)}

\* the orchestrator hands the resolved target to the collector
PipeCollect ==
    /\ rsv.by = "DBManager"
    /\ col.pc = "idle"
    /\ col' = Submitted(col, [col.prm EXCEPT !.target_isins = rsv.result])
    /\ UNCHANGED <<catalog, ledger, mgr, sv, rsv, run, fix>>

\* the orchestrator hands the collected batches to the persister
PipePersist ==
    /\ col.pc = "returned"
    /\ col.nav_dfs # <<>>
    /\ mgr[1].budget = 0
    /\ mgr' = [mgr EXCEPT ![1] = IdleMgr(col.nav_dfs, "morningstar", 1)]
    /\ UNCHANGED <<catalog, ledger, sv, rsv, col, run, fix>>

InitPipe ==
    /\ catalog = DefaultCatalog
    /\ fix = NoFix
    /\ ledger = <<>>
    /\ mgr = [p \in Procs |-> IdleMgr(<<>>, DistOf(p), 0)]
    /\ sv = [p \in Procs |-> NoFrame]
    /\ rsv = NoCall
    /\ run = NoRun
    /\ \E remote \in [1..PipePairs -> PipeAnswers] :
          col = IdleCol("NAVDataCollector", PipePairs, remote, NoParams)

NextPipe ==
    \/ \E f \in PipeFilters : ResolveByManager(f)
    \/ PipeCollect
    \/ \E k \in 1..PipePairs :
          \/ WorkerStart(k)
          \/ WorkerFinish(k)
          \/ Consume(k)
    \/ CollectReturn
    \/ PipePersist
    \/ StartPersist(1)
    \/ Stage(1)
    \/ BulkInsert(1)
    \/ FallbackInsert(1)
    \/ FallbackDone(1)
    \/ Backfill(1)
    \/ Finish(1)

SpecPipe == InitPipe /\ [][NextPipe]_vars

(***************************************************************************)
(* SpecOrder: NAVDataCollector.collect_nav_data fetches the first files of *)
(* the list with its pool, then DBManager.save_nav_data persists the       *)
(* batches in the order the fetches completed.  The files are variants of  *)
(* the first source; two of them may publish the same identifier.          *)
(***************************************************************************)
OrderAnswers ==
    {NotFound,
     Table(<<Row("A", 2, "10")>>),
     Table(<<Row("A", 2, "20")>>),
     Table(<<Row("A", 2, "10"), Row("A", 3, "20")>>)}

InitOrder ==
    /\ catalog = DefaultCatalog
    /\ fix = NoFix
    /\ ledger = <<>>
    /\ mgr = [p \in Procs |-> IdleMgr(<<>>, DistOf(p), 0)]
    /\ sv = [p \in Procs |-> NoFrame]
    /\ rsv = NoCall
    /\ run = NoRun
    /\ \E remote \in [1..OrderPairs -> OrderAnswers] :
          col = IdleCol("NAVDataCollector", OrderPairs, remote, NoParams)

NextOrder ==
    \/ CallCollect
    \/ \E k \in 1..OrderPairs :
          \/ WorkerStart(k)
          \/ WorkerFinish(k)
          \/ Consume(k)
    \/ CollectReturn
    \/ PipePersist
    \/ StartPersist(1)
    \/ Stage(1)
    \/ BulkInsert(1)
    \/ FallbackInsert(1)
    \/ FallbackDone(1)
    \/ Backfill(1)
    \/ Finish(1)

SpecOrder == InitOrder /\ [][NextOrder]_vars

(***************************************************************************)
(* SpecMatrix: one call of NAVDataCollector.collect_nav_data over the      *)
(* whole file list of _get_input_file_list, one file per pair of EMITTERS  *)
(* and FILE_TYPES.                                                         *)
(***************************************************************************)
\* the first file cannot be fetched, the second holds a row of the day,
\* the last is not on the server; the others hold a row of another day
MatrixRemotes ==
    {[k \in DOMAIN InputFileList |->
         IF k = 1 THEN Fault
         ELSE IF k = 2 THEN Table(<<Row("A", 2, "10")>>)
         ELSE IF k = Len(InputFileList) THEN NotFound
         ELSE Table(<<Row("A", 4, "10")>>)]}

InitMatrix ==
    /\ catalog = DefaultCatalog
    /\ fix = NoFix
    /\ ledger = <<>>
    /\ mgr = [p \in Procs |-> IdleMgr(<<>>, DistOf(p), 0)]
    /\ sv = [p \in Procs |-> NoFrame]
    /\ rsv = NoCall
    /\ run = NoRun
    /\ \E remote \in MatrixRemotes, w \in {1} :
          col = IdleCol("NAVDataCollector", Len(InputFileList), remote,
                        Params(TRUE, 1, None, {}, NULL, w))

NextMatrix ==
    \/ CallCollect
    \/ \E k \in DOMAIN InputFileList :
          \/ WorkerStart(k)
          \/ WorkerFinish(k)
          \/ Consume(k)
    \/ CollectReturn

SpecMatrix == InitMatrix /\ [][NextMatrix]_vars

(***************************************************************************)
(* SpecUpload: NAVProcessor._process_nav_files with a Drive service: the   *)
(* pool threads put every file they saved on upload_queue, the thread      *)
(* _upload_worker takes them off and uploads, and the main thread puts     *)
(* STOP and joins the queue.  Every thread that can take a step            *)
(* eventually takes one.                                                   *)
(***************************************************************************)
UploadAnswers ==
    {NotFound,
     Table(<<Row("A", 2, "10")>>),
     Table(<<Row("A", BadDate, "10")>>)}

InitUpload ==
    /\ catalog = DefaultCatalog
    /\ fix = NoFix
    /\ ledger = <<>>
    /\ mgr = [p \in Procs |-> IdleMgr(<<>>, DistOf(p), 0)]
    /\ sv = [p \in Procs |-> NoFrame]
    /\ rsv = NoCall
    /\ run = IdleRun(NoFilter, {}, "morningstar", 5, 1)
    /\ \E remote \in [1..UploadPairs -> UploadAnswers],
          input_folder_id \in BOOLEAN :
          col = [IdleCol("NAVProcessor", UploadPairs, remote, NoParams)
                    EXCEPT !.up = WithDrive(input_folder_id)]

NextUpload ==
    \/ RunStart
    \/ \E k \in 1..UploadPairs :
          \/ WorkerStart(k)
          \/ WorkerFinish(k)
          \/ Consume(k)
    \/ PutStop
    \/ UploadGet
    \/ \E ok \in BOOLEAN : UploadAttempt(ok)
    \/ UploadSleep
    \/ CollectReturn
    \/ RunCollected

SpecUpload == InitUpload /\ [][NextUpload]_vars /\ WF_vars(NextUpload)

(***************************************************************************)
(* SpecRaw: a collection, by either implementation, of raw tables that     *)
(* hold unreadable dates, unreadable values and missing identifiers next   *)
(* to good rows.                                                           *)
(***************************************************************************)
RawAnswers ==
    {NotFound,
     Table(<<Row("A", 2, "10"), Row("B", BadDate, "10")>>),
     Table(<<Row(NULL, 2, "10"), Row("A", 2, "abc"), Row("B", 2, "10")>>),
     Table(<<Row("A", NaT, "10")>>)}

InitRaw ==
    /\ catalog = DefaultCatalog
    /\ fix = NoFix
    /\ ledger = <<>>
    /\ mgr = [p \in Procs |-> IdleMgr(<<>>, DistOf(p), 0)]
    /\ sv = [p \in Procs |-> NoFrame]
    /\ rsv = NoCall
    /\ \E remote \in [1..RawPairs -> RawAnswers] :
          \/ /\ col = IdleCol("NAVDataCollector", RawPairs, remote, NoParams)
             /\ run = NoRun
          \/ /\ col = IdleCol("NAVProcessor", RawPairs, remote, NoParams)
             /\ run = IdleRun(NoFilter, {}, "morningstar", 5, 1)

NextRaw ==
    \/ CallCollect
    \/ RunStart
    \/ \E k \in 1..RawPairs :
          \/ WorkerStart(k)
          \/ WorkerFinish(k)
          \/ Consume(k)
    \/ CollectReturn
    \/ RunCollected

SpecRaw == InitRaw /\ [][NextRaw]_vars

(***************************************************************************)
(* Vocabulary of the claims about persistence.                             *)
(***************************************************************************)
RECURSIVE Flatten(_)
Flatten(dfs) == IF dfs = <<>> THEN <<>> ELSE Head(dfs).df \o Flatten(Tail(dfs))

DistinctKeys(rows) ==
    \A i, j \in DOMAIN rows : EntryKey(rows[i]) = EntryKey(rows[j]) => i = j

Numeric(rows) == \A i \in DOMAIN rows : IsFloat(rows[i].NAV)

Known(rows) == {i \in DOMAIN rows : rows[i].ISIN \in DOMAIN catalog}

\* the keys of the rows whose identifier is in the Catalog
ValidKeys(rows) == {EntryKey(rows[i]) : i \in Known(rows)}

Unique(led) ==
    \A m, n \in DOMAIN led :
        (led[m].isin = led[n].isin /\ led[m].nav_date = led[n].nav_date)
            => m = n

Other(p) == CHOOSE q \in Procs : q # p

(***************************************************************************)
(* C1.  In every reachable state of the ledger - after any sequence of     *)
(* persist calls, bulk path or row-by-row fallback, batches that repeat a  *)
(* key, two runs interleaved - no two rows share the same (identifier,     *)
(* valuation date).                                                        *)
(***************************************************************************)
C1_Uniqueness == Unique(ledger)

\* both runs have written a row and a fallback insert has just been rejected
C1_Witness ==
    /\ \E m, n \in DOMAIN ledger :
          ledger[m].distribution_type # ledger[n].distribution_type
    /\ \E p \in Procs :
          /\ sv[p].pc = "fallback"
          /\ sv[p].i > 1
          /\ sv[p].entries_to_add[sv[p].i - 1].id = 0

(***************************************************************************)
(* C2.  Persisting twice the same input of N rows (keys pairwise distinct, *)
(* identifiers in the Catalog, keys not yet in the ledger) returns         *)
(* added = N, duplicates = 0 and then added = 0, duplicates = N, and the   *)
(* second call leaves the ledger unchanged.                                *)
(***************************************************************************)
C2_Idempotence ==
    \A p \in Procs :
        LET m == mgr[p]
            rows == Flatten(m.nav_dfs)
            N == Len(rows)
        IN  (/\ Len(m.log) >= 1
             /\ m.log[1].before = <<>>
             /\ m.log[1].status # "crashed"
             /\ DistinctKeys(rows) /\ Numeric(rows)
             /\ Known(rows) = DOMAIN rows)
            => /\ m.log[1].status = "returned"
               /\ m.log[1].added = N
               /\ m.log[1].duplicates = 0
               /\ (Len(m.log) >= 2 /\ m.log[2].status # "crashed")
                    => /\ m.log[2].status = "returned"
                       /\ m.log[2].added = 0
                       /\ m.log[2].duplicates = N
                       /\ m.log[2].after = m.log[2].before

(***************************************************************************)
(* C3.  After persistence stopped with a prefix of its batches or rows     *)
(* committed, a second persist of the whole input returns without raising, *)
(* leaves the ledger with exactly the rows of an uninterrupted persist -   *)
(* no key missing, no key twice - and reports as added the keys that were  *)
(* still missing.                                                          *)
(***************************************************************************)
C3_RerunSafe ==
    \A p \in Procs :
        LET m == mgr[p]
            rows == Flatten(m.nav_dfs)
        IN  (/\ Len(m.log) >= 2
             /\ m.log[1].before = <<>>
             /\ m.log[1].status = "crashed"
             /\ m.log[2].status # "crashed"
             /\ Numeric(rows))
            => /\ m.log[2].status = "returned"
               /\ KeysOf(m.log[2].after) = ValidKeys(rows)
               /\ Unique(m.log[2].after)
               /\ Len(m.log[2].before) + m.log[2].added
                      = Cardinality(ValidKeys(rows))

(***************************************************************************)
(* C4.  Two runs took their existing-key snapshot before either wrote and  *)
(* staged overlapping records: the run whose bulk insert is rejected       *)
(* inserts row by row, counts every rejected record as a duplicate,        *)
(* inserts every staged record whose key is still absent, and no           *)
(* constraint violation propagates out of save_nav_entries.                *)
(***************************************************************************)
FirstSnap(q) ==
    IF Len(mgr[q].log) >= 1 THEN mgr[q].log[1].snap ELSE mgr[q].snap

C4_FallbackTolerant ==
    \A p \in Procs :
        LET m == mgr[p]
            rows == Flatten(m.nav_dfs)
            others == Flatten(mgr[Other(p)].nav_dfs)
        IN  (/\ Len(m.log) >= 1
             /\ m.log[1].fell_back
             /\ m.log[1].snap = {}
             /\ mgr[Other(p)].calls >= 1 /\ FirstSnap(Other(p)) = {}
             /\ DistinctKeys(rows)
             /\ ValidKeys(rows) \cap ValidKeys(others) # {})
            => /\ m.log[1].status = "returned"
               /\ ValidKeys(rows) \subseteq KeysOf(m.log[1].after)
               /\ m.log[1].added + m.log[1].duplicates + m.log[1].invalids
                      = Len(rows)

(***************************************************************************)
(* C5.  A batch of pairwise distinct fresh keys with k records whose       *)
(* identifier is absent from the Catalog and m records whose identifier    *)
(* is present returns added = m, invalid = k, duplicates = 0 and inserts   *)
(* exactly the m known records.                                            *)
(***************************************************************************)
C5_InvalidIsolation ==
    \A p \in Procs :
        LET m == mgr[p]
            rows == Flatten(m.nav_dfs)
        IN  (/\ Len(m.log) >= 1
             /\ Len(m.nav_dfs) = 1
             /\ m.log[1].before = <<>>
             /\ m.log[1].status # "crashed"
             /\ DistinctKeys(rows) /\ Numeric(rows)
             /\ Known(rows) # {} /\ Known(rows) # DOMAIN rows)
            => /\ m.log[1].status = "returned"
               /\ m.log[1].added = Cardinality(Known(rows))
               /\ m.log[1].invalids = Len(rows) - Cardinality(Known(rows))
               /\ m.log[1].duplicates = 0
               /\ KeysOf(m.log[1].after) = ValidKeys(rows)

(***************************************************************************)
(* Vocabulary of the claims about resolution.                              *)
(***************************************************************************)
\* the tokens that name a frequency or a product type
IsTag(t) ==
    Upper(t) \in FREQUENCIES \/ Lower(t) \in {"wrappers_hybrid", "loan"}

\* the union of two results, None standing for "no restriction"
United(a, b) ==
    IF ~a.restricted \/ ~b.restricted THEN None
    ELSE SetOf(a.isins \cup b.isins)

(***************************************************************************)
(* C6.  For any two tags tagA and tagB, DBManager.get_target_isins of the  *)
(* list [tagA, tagB] is the union of its results for tagA and for tagB,    *)
(* None meaning "unrestricted" - also when one of the tags has no hit in   *)
(* the Catalog.                                                            *)
(***************************************************************************)
C6_UnionLaw ==
    (/\ rsv.by = "DBManager"
     /\ rsv.filter.kind = "list"
     /\ Len(rsv.filter.tokens) = 2
     /\ IsTag(rsv.filter.tokens[1]) /\ IsTag(rsv.filter.tokens[2]))
    => rsv.result =
           United(get_target_isins(catalog, StrFilter(rsv.filter.tokens[1])),
                  get_target_isins(catalog, StrFilter(rsv.filter.tokens[2])))

(***************************************************************************)
(* Vocabulary of the claims about collection and runs.                     *)
(***************************************************************************)
\* the rows of file k a collection has to return: what the fetch of the
\* file alone gives, filtered by the parameters of the call
Expected(c, k) ==
    LET ft == FilesOf(c.impl)[k].file_type
        res == IF c.impl = "NAVDataCollector"
               THEN ProcessFtpFile(c.remote[k], ft)
               ELSE NAVProcessor_ProcessFtpFile(c.remote[k], ft)
    IN  IF res.none THEN <<>> ELSE Filtered(c.impl, res.df, c.prm)

AllNotFound(c) == \A k \in 1..c.n : c.remote[k].kind = "notfound"

SomeKept(c) == \E k \in 1..c.n : Expected(c, k) # <<>>

BatchesOf(c, k) == {j \in DOMAIN c.nav_dfs : c.nav_dfs[j].file = k}

C8_FaultIsolation ==
    /\ col.prm.date_ok => col.pc # "raised"
    /\ \A j \in DOMAIN col.nav_dfs :
          LET b == col.nav_dfs[j]
          IN  /\ b.df = Expected(col, b.file)
              /\ b.df # <<>>
              /\ b.emitter = FilesOf(col.impl)[b.file].emitter
              /\ BatchesOf(col, b.file) = {j}
    /\ col.pc = "returned"
          => \A k \in 1..col.n :
                Expected(col, k) # <<>> => BatchesOf(col, k) # {}

\* a fetch failed and two other batches came back in the reverse order
C8_Witness ==
    /\ col.pc = "returned"
    /\ \E k \in 1..col.n : col.remote[k].kind = "fault"
    /\ Len(col.nav_dfs) >= 2
    /\ col.nav_dfs[1].file > col.nav_dfs[2].file

(***************************************************************************)
(* C9.  A run with a restricted target T in which one source fails         *)
(* transiently collects from the reachable sources only and adds at most   *)
(* |T| rows to the ledger, and a second run for the same date against the  *)
(* same answers adds nothing.                                              *)
(***************************************************************************)
C9_RestrictedRun ==
    \A n \in DOMAIN run.log :
        LET r == run.log[n]
        IN  (/\ r.target_isins.restricted
             /\ \E k \in 1..col.n : col.remote[k].kind = "fault")
            => /\ \A j \in DOMAIN r.nav_dfs :
                     col.remote[r.nav_dfs[j].file].kind = "table"
               /\ n = 1 => /\ Len(r.after) - Len(r.before)
                                 <= Cardinality(r.target_isins.isins)
                           /\ r.added <= Cardinality(r.target_isins.isins)
               /\ (n = 2 /\ run.log[1].persist # "idle" /\ r.persist # "idle")
                     => /\ r.after = r.before
                        /\ r.added = 0

(***************************************************************************)
(* C10.  A run whose collection succeeded and whose persister raised       *)
(* still finishes as succeeded; a run fails only when nothing was          *)
(* collected.                                                              *)
(***************************************************************************)
C10_PersistErrorTolerated ==
    \A n \in DOMAIN run.log :
        LET r == run.log[n]
        IN  /\ (r.nav_dfs # <<>> /\ r.persist = "raised")
                  => r.status = "succeeded"
            /\ r.status = "failed" => r.nav_dfs = <<>>

(***************************************************************************)
(* C11.  On every path out of process_navs - normal return, fatal-empty,   *)
(* an exception in resolving, distribution or persisting - cleanup() has   *)
(* been executed when the caller gets the result or the error.             *)
(***************************************************************************)
C11_CleanupAlways ==
    run.pc \in {"succeeded", "failed"} => run.cleaned

\* a run failed in resolving, the next one failed in persisting after its
\* files were distributed, and the temporary files are gone
C11_Witness ==
    /\ run.pc = "failed"
    /\ run.cleaned
    /\ Len(run.log) = 2
    /\ run.log[1].reason = "resolve"
    /\ run.log[2].reason = "persist"
    /\ run.log[2].persist = "raised"

(***************************************************************************)
(* C12.  The steps of a run happen in the order resolve, collect, persist, *)
(* distribute: no fetch is in flight once persistence starts, persistence  *)
(* has finished when templates, email and upload begin, and so a run that  *)
(* failed in distribution has persisted what it collected.                 *)
(***************************************************************************)
C12_PersistBeforeDistribution ==
    /\ run.pc = "saving" => col.pc = "returned"
    /\ run.pc = "distributing" => mgr[1].pc \in {"returned", "raised"}
    /\ \A i \in 1..Len(run.log) :
          run.log[i].reason = "distribution" => run.log[i].persist # "idle"

\* the files a finished collection has recorded as missing
MissingOf(c) == {c.missing_files[i] : i \in DOMAIN c.missing_files}

(***************************************************************************)
(* C13.  After a collection the files recorded as missing are exactly the  *)
(* files whose fetch answered not-found: a file whose fetch failed with    *)
(* another transport fault is not among them, and neither is a file that   *)
(* was fetched and kept no row after filtering.                            *)
(***************************************************************************)
C13_MissingIsNotFound ==
    col.pc = "returned"
        => MissingOf(col) =
               {k \in 1..col.n : col.remote[k].kind = "notfound"}

(***************************************************************************)
(* What the caller of a run gets.  process_navs has no return statement:   *)
(* the tallies of _save_to_database are dropped at line 703.  The endpoint *)
(* fetch_remote_navs answers with the same constant body after a normal    *)
(* return and after an exception of process_navs.                          *)
(***************************************************************************)
process_navs_returns(rep) == NULL

fetch_remote_navs(rep) ==
    [status |-> "success",
     message |-> IF rep.status = "succeeded"
                 THEN "Successfully processed NAV files"
                 ELSE "Processed NAV files with some duplicates/invalid",
     stats |-> [added |-> 0, duplicates |-> 0, invalids |-> 0]]

(***************************************************************************)
(* C14.  The caller of a run that succeeded gets a structured report whose *)
(* added, duplicates and invalid counts are the sums of the per-batch      *)
(* tallies of _save_to_database for that run, and which names the missing  *)
(* and the failed sources.                                                 *)
(***************************************************************************)
C14_StructuredReport ==
    \A i \in 1..Len(run.log) :
        run.log[i].status = "succeeded"
            => /\ process_navs_returns(run.log[i]) # NULL
               /\ fetch_remote_navs(run.log[i]).stats =
                      [added |-> run.log[i].added,
                       duplicates |-> run.log[i].duplicates,
                       invalids |-> run.log[i].invalids]
               /\ {"missing", "failed"}
                      \subseteq DOMAIN fetch_remote_navs(run.log[i])

(***************************************************************************)
(* C15.  At every moment of a collection at most min(3, max_workers)       *)
(* _process_ftp_file tasks are executing, for every configured             *)
(* max_workers, however many files were submitted.                         *)
(***************************************************************************)
C15_BoundedPool ==
    /\ Cardinality(Running(col)) <= 3
    /\ Cardinality(Running(col)) <= col.prm.max_workers

\* max_workers is 5 and more files than three were submitted: three tasks
\* are executing and the next one waits in the queue
C15_Witness ==
    /\ col.pc = "collecting"
    /\ col.prm.max_workers = 5
    /\ Cardinality(Running(col)) = 3
    /\ \E k \in 1..col.n : col.task[k] = "queued"

(***************************************************************************)
(* C16.  No fetch blocks a collection forever: whatever the remote sides   *)
(* do, collect_nav_data eventually returns or raises.                      *)
(***************************************************************************)
C16_CollectTerminates == <>(col.pc \in {"returned", "raised"})

\* a filter spec that is one literal identifier
Literal(f) == f.kind = "str" /\ f.token # "" /\ ~IsTag(f.token)

(***************************************************************************)
(* C17.  A token that names no frequency and no product type resolves to   *)
(* the singleton set of that token, whether or not the Catalog knows the   *)
(* identifier.  An identifier the Catalog does not know is found out only  *)
(* by the persister: every record collected for it is tallied invalid and  *)
(* nothing is added to the ledger.                                         *)
(***************************************************************************)
C17_LiteralUnvalidated ==
    (rsv.by = "DBManager" /\ Literal(rsv.filter))
        => /\ rsv.result = SetOf({rsv.filter.token})
           /\ rsv.filter.token \notin DOMAIN catalog
                 => /\ \A k \in DOMAIN col.nav_dfs :
                          \A j \in DOMAIN col.nav_dfs[k].df :
                              col.nav_dfs[k].df[j].ISIN = rsv.filter.token
                    /\ mgr[1].pc # "raised"
                    /\ ledger = <<>>
                    /\ \A i \in DOMAIN mgr[1].log :
                          /\ mgr[1].log[i].status = "returned"
                          /\ mgr[1].log[i].added = 0
                          /\ mgr[1].log[i].duplicates = 0
                          /\ mgr[1].log[i].invalids
                                = Len(Flatten(mgr[1].nav_dfs))

\* the filter was the unknown identifier X, two files held a record for
\* it, and the persister returned with both tallied invalid
C17_Witness ==
    /\ rsv.by = "DBManager"
    /\ rsv.filter = StrFilter("X")
    /\ rsv.result = SetOf({"X"})
    /\ Len(col.nav_dfs) = 2
    /\ mgr[1].pc = "returned"
    /\ mgr[1].log[1].invalids = 2
    /\ mgr[1].log[1].added = 0

\* the Active Catalog entries a tag stands for
TagHits(cat, t) ==
    {i \in DOMAIN cat :
        /\ cat[i].status = "ACTIVE"
        /\ IF Upper(t) \in FREQUENCIES
           THEN /\ cat[i].nav_frequency # NULL
                /\ Upper(cat[i].nav_frequency) = Upper(t)
           ELSE ILikeContains(cat[i].product_type,
                              IF Lower(t) = "loan" THEN "Loan"
                              ELSE "Wrappers Hybrid")}

(***************************************************************************)
(* C18.  A frequency tag or a product tag resolves to exactly the set of   *)
(* the Active Catalog identifiers whose frequency (product type) matches   *)
(* the tag, in whatever letter-casing the tag is written: nothing else is  *)
(* selected, Inactive and Matured entries in particular.                   *)
(***************************************************************************)
C18_TagExact ==
    (/\ rsv.filter.kind = "str"
     /\ IsTag(rsv.filter.token)
     /\ \/ rsv.by = "DBManager"
        \/ rsv.by = "NAVProcessor" /\ Upper(rsv.filter.token) \in FREQUENCIES)
        => rsv.result = SetOf(TagHits(catalog, rsv.filter.token))

\* the filter specs that stand for "All"
AllFilter(f) == f \in {NoFilter, StrFilter(""), ListFilter(<<>>)}

\* the filters of a collection other than the one on the identifier
PassesOthers(r, prm) ==
    /\ r.ISIN # NULL /\ r.Date # NaT /\ r.NAV # NULL
    /\ DateOf(r.Date) = prm.target_date
    /\ r.ISIN \notin prm.exclude_isins
    /\ prm.file_type # NULL => r.file_type = prm.file_type

\* the rows of file k that pass the other filters
OthersOf(c, k) ==
    LET res == ProcessFtpFile(c.remote[k], FilesOf(c.impl)[k].file_type)
    IN  IF res.none THEN <<>>
        ELSE SelectSeq(res.df, LAMBDA r : PassesOthers(r, c.prm))

(***************************************************************************)
(* C19.  None, the empty string and the empty list resolve to None, the    *)
(* unrestricted target, and a collection with that target restricts no     *)
(* identifier: of every file it returns all the rows that pass the other   *)
(* filters, whatever their identifier.                                     *)
(***************************************************************************)
C19_AllUnrestricted ==
    (rsv.by = "DBManager" /\ AllFilter(rsv.filter))
        => /\ rsv.result = None
           /\ col.pc = "returned"
                 => \A k \in 1..col.n :
                       IF OthersOf(col, k) = <<>> THEN BatchesOf(col, k) = {}
                       ELSE /\ Cardinality(BatchesOf(col, k)) = 1
                            /\ \A j \in BatchesOf(col, k) :
                                  col.nav_dfs[j].df = OthersOf(col, k)

\* the empty list was resolved and the collection returned a row of X,
\* which the Catalog does not hold, and a row of the Inactive B
C19_Witness ==
    /\ rsv.by = "DBManager"
    /\ rsv.filter = ListFilter(<<>>)
    /\ col.pc = "returned"
    /\ \E j \in DOMAIN col.nav_dfs :
          \E i \in DOMAIN col.nav_dfs[j].df : col.nav_dfs[j].df[i].ISIN = "X"
    /\ \E j \in DOMAIN col.nav_dfs :
          \E i \in DOMAIN col.nav_dfs[j].df : col.nav_dfs[j].df[i].ISIN = "B"

\* the identity of a ledger row: everything but the grouping key
Identity(row) ==
    <<row.isin, row.nav_date, row.nav_value, row.emitter,
      row.distribution_type>>

\* the records of a call whose key the ledger held when the call began
Known_Before(m, led) ==
    {j \in DOMAIN Flatten(m.nav_dfs) :
        EntryKey(Flatten(m.nav_dfs)[j]) \in KeysOf(led)}

(***************************************************************************)
(* C20.  No step of any persist call deletes a ledger row or changes its   *)
(* identifier, date, value, source name or distribution tag; only its      *)
(* series_number may change.  A record whose key is already in the ledger, *)
(* with whatever value, is counted as a duplicate by the call that         *)
(* returns, and the stored value stays.                                    *)
(***************************************************************************)
C20_LedgerFrame ==
    [][/\ Len(ledger') >= Len(ledger)
       /\ \A n \in DOMAIN ledger : Identity(ledger'[n]) = Identity(ledger[n])
       /\ \A p \in Procs :
             \A i \in DOMAIN mgr'[p].log :
                 mgr'[p].log[i].status = "returned"
                     => mgr'[p].log[i].duplicates
                            >= Cardinality(Known_Before(mgr'[p],
                                               mgr'[p].log[i].before))]_vars

\* the ledger holds A with the value 10 of the first process; the second
\* process brought A with the value 20 and returned with one duplicate
C20_Witness ==
    /\ \E n \in DOMAIN ledger :
          ledger[n].isin = "A" /\ ledger[n].nav_value = 10
    /\ \E j \in DOMAIN Flatten(mgr[2].nav_dfs) :
          /\ Flatten(mgr[2].nav_dfs)[j].ISIN = "A"
          /\ Flatten(mgr[2].nav_dfs)[j].NAV = "20"
    /\ mgr[2].pc = "returned"
    /\ mgr[2].log[Len(mgr[2].log)].duplicates >= 1
    /\ mgr[2].log[Len(mgr[2].log)].added = 0

\* a row of file k meets every condition of the call
MeetsAll(c, k, r) ==
    /\ r.ISIN # NULL /\ r.NAV # NULL /\ r.Date # NaT
    /\ DateOf(r.Date) = c.prm.target_date
    /\ c.prm.target_isins.restricted => r.ISIN \in c.prm.target_isins.isins
    /\ r.ISIN \notin c.prm.exclude_isins
    /\ c.prm.file_type # NULL
          => FilesOf(c.impl)[k].file_type = c.prm.file_type

\* the rows file k holds on the remote side, as the cleaning reads them
FetchedRows(c, k) ==
    IF c.remote[k].kind # "table" THEN <<>>
    ELSE [i \in DOMAIN c.remote[k].rows |-> CleanRow(c.remote[k].rows[i])]

\* a batch row without the column the collector adds
Plain(r) == Row(r.ISIN, r.Date, r.NAV)

(***************************************************************************)
(* C21.  Every batch a collection returns is non-empty and holds only rows *)
(* that are complete, dated on the requested day, inside the target when   *)
(* it is restricted, outside the exclusion list and of the requested file  *)
(* type; and every fetched row that meets these conditions is returned.    *)
(* Both for collect_nav_data and for _process_nav_files.                   *)
(***************************************************************************)
C21_ExactFilter ==
    col.pc = "returned"
        => /\ \A j \in DOMAIN col.nav_dfs :
                 /\ col.nav_dfs[j].df # <<>>
                 /\ \A i \in DOMAIN col.nav_dfs[j].df :
                       MeetsAll(col, col.nav_dfs[j].file,
                                col.nav_dfs[j].df[i])
           /\ \A k \in 1..col.n :
                 \A i \in DOMAIN FetchedRows(col, k) :
                     MeetsAll(col, k, FetchedRows(col, k)[i])
                         => \E j \in BatchesOf(col, k) :
                               \E h \in DOMAIN col.nav_dfs[j].df :
                                   Plain(col.nav_dfs[j].df[h])
                                       = FetchedRows(col, k)[i]

(***************************************************************************)
(* C22.  When the collection step of process_navs returns no batch, the    *)
(* run ends there as failed: neither the distribution step nor             *)
(* save_nav_data is entered, and the ledger is what it was when the run    *)
(* began.                                                                  *)
(***************************************************************************)
C22_FatalEmptyFrame ==
    [][(/\ run.pc = "collecting"
        /\ col.pc = "returned"
        /\ col.nav_dfs = <<>>
        /\ run' # run)
           => /\ run'.pc = "failed"
              /\ run'.log[Len(run'.log)].reason = "empty"
              /\ run'.log[Len(run'.log)].persist = "idle"
              /\ run'.log[Len(run'.log)].after = run.before
              /\ mgr'[1].calls = 0
              /\ ledger' = run.before]_vars

\* a run against a ledger that holds a row found no file and failed
C22_Witness ==
    /\ run.pc = "failed"
    /\ run.log[Len(run.log)].reason = "empty"
    /\ run.log[Len(run.log)].nav_dfs = <<>>
    /\ ledger # <<>>
    /\ ledger = run.before

(***************************************************************************)
(* C23.  For every filter spec NAVProcessor._get_target_isins returns what *)
(* DBManager.get_target_isins returns: the union of what each token        *)
(* resolves to, the product tags resolved through the Catalog.             *)
(***************************************************************************)
C23_ResolversAgree ==
    /\ rsv.by = "NAVProcessor"
          => rsv.result = get_target_isins(catalog, rsv.filter)
    /\ rsv.by = "DBManager"
          => rsv.result = NAVProcessor_get_target_isins(catalog, rsv.filter)

\* the ledger rows that hold the entries of a staged list
RowsOf(led, es) ==
    {n \in DOMAIN led :
        \E j \in DOMAIN es :
            <<led[n].isin, led[n].nav_date>> = <<es[j].isin, es[j].nav_date>>}

(***************************************************************************)
(* C24.  When the bulk insert of save_nav_entries succeeded, its second    *)
(* pass raises nothing, adds no row to the ledger and leaves every row it  *)
(* inserted with the series_number the Catalog has for its identifier.     *)
(***************************************************************************)
C24_BackfillAfterBulk ==
    [][\A p \in Procs :
          (/\ sv[p].pc = "backfill"
           /\ ~mgr[p].fell_back
           /\ sv'[p].pc = "none"
           /\ mgr'[p].pc # "crashed")
              => /\ mgr'[p].pc # "raised"
                 /\ Len(ledger') = Len(ledger)
                 /\ \A n \in RowsOf(ledger', sv[p].entries_to_add) :
                       ledger'[n].series_number
                           = SeriesInfoGet(catalog, ledger'[n].isin)]_vars

(***************************************************************************)
(* C25.  After the row-by-row fallback the entries that go to the second   *)
(* pass are exactly the entries whose own insert was committed, wherever   *)
(* the rejected ones stand in the staged list.                             *)
(***************************************************************************)
C25_BackfillInserted ==
    [][\A p \in Procs :
          (sv[p].pc = "fallback" /\ sv'[p].pc = "backfill")
              => sv'[p].entries_to_add
                     = SelectSeq(sv[p].entries_to_add,
                                 LAMBDA e : e.id # 0)]_vars

(***************************************************************************)
(* C26.  One batch that repeats a fresh key of a known identifier makes    *)
(* save_nav_entries return: the ledger gets exactly one row for each key   *)
(* of the batch, added counts the keys and duplicates the extra copies.    *)
(***************************************************************************)
C26_RepeatedKey ==
    LET m == mgr[1]
        rows == Flatten(m.nav_dfs)
    IN  (/\ Len(m.log) >= 1
         /\ Len(m.nav_dfs) = 1
         /\ m.log[1].before = <<>>
         /\ m.log[1].status # "crashed"
         /\ Numeric(rows)
         /\ Known(rows) = DOMAIN rows
         /\ ~DistinctKeys(rows))
        => /\ m.log[1].status = "returned"
           /\ Unique(m.log[1].after)
           /\ KeysOf(m.log[1].after) = ValidKeys(rows)
           /\ m.log[1].added = Cardinality(ValidKeys(rows))
           /\ m.log[1].duplicates
                 = Len(rows) - Cardinality(ValidKeys(rows))
           /\ m.log[1].invalids = 0

\* the rows of a batch by the place the stated order gives them
DuplicateRows(df, led) ==
    {i \in DOMAIN df : EntryKey(df[i]) \in KeysOf(led)}

InvalidRows(df, led, cat) ==
    {i \in DOMAIN df :
        EntryKey(df[i]) \notin KeysOf(led) /\ df[i].ISIN \notin DOMAIN cat}

OtherRows(df, led, cat) ==
    SelectSeq(df, LAMBDA r : /\ EntryKey(r) \notin KeysOf(led)
                             /\ r.ISIN \in DOMAIN cat)

(***************************************************************************)
(* C27.  The loop of save_nav_entries classifies in a fixed order: a       *)
(* record whose key is in the snapshot counts as duplicate, also when the  *)
(* Catalog does not hold its identifier; a record with a fresh key and an  *)
(* unknown identifier counts as invalid; every other record is staged.     *)
(***************************************************************************)
C27_ClassOrder ==
    [][\A p \in Procs :
          (/\ mgr[p].pc = "loop" /\ sv[p].pc = "none"
           /\ mgr'[p].pc = "loop"
           /\ sv'[p].pc = "bulk" \/ mgr'[p].k = mgr[p].k + 1)
              => LET b == mgr[p].nav_dfs[mgr[p].k]
                     dups == Cardinality(DuplicateRows(b.df, ledger))
                     invs == Cardinality(InvalidRows(b.df, ledger, catalog))
                     rest == OtherRows(b.df, ledger, catalog)
                     staged == [i \in DOMAIN rest |->
                                   NewEntry(rest[i], mgr[p].dist, b.emitter)]
                 IN  IF sv'[p].pc = "bulk"
                     THEN /\ sv'[p].duplicates_count = dups
                          /\ sv'[p].invalid_series_count = invs
                          /\ sv'[p].entries_to_add = staged
                     ELSE /\ mgr'[p].total_duplicates
                                = mgr[p].total_duplicates + dups
                          /\ mgr'[p].total_invalids
                                = mgr[p].total_invalids + invs
                          /\ rest = <<>>]_vars

(***************************************************************************)
(* C28.  Tally conservation: whenever a call of save_nav_entries returns,  *)
(* added + duplicates + invalid equals the number of records of the batch  *)
(* it was given: no record is dropped without being counted, on the bulk   *)
(* path, on the fallback path, and when a row cannot be converted.         *)
(***************************************************************************)
Tallied(m) == m.total_added + m.total_duplicates + m.total_invalids

\* save_nav_data adds the three numbers of the call to its totals and goes
\* on to the next batch: that step is the return of save_nav_entries
EntriesReturn(p) ==
    /\ mgr[p].pc = "loop"
    /\ mgr[p].k <= Len(mgr[p].nav_dfs)
    /\ mgr'[p].pc = "loop"
    /\ mgr'[p].k = mgr[p].k + 1

C28_TallyConservation ==
    [][\A p \in Procs :
          EntriesReturn(p)
              => Tallied(mgr'[p]) - Tallied(mgr[p])
                    = Len(mgr[p].nav_dfs[mgr[p].k].df)]_vars

(***************************************************************************)
(* C29.  The result of a run does not depend on the order in which the     *)
(* concurrent fetches complete: for fixed fetch outcomes the final ledger  *)
(* (keys, values, source names) and the total tallies are the same for     *)
(* every completion order, also when two pairs publish the same identifier *)
(* for the date.  Stated against one order: what a finished persist call   *)
(* left is what it leaves when the batches arrive in submission order.     *)
(***************************************************************************)
\* save_nav_entries lines 303-313 as one loop: the table, the entries with
\* their identity keys, added_count and the duplicates found on the way
RECURSIVE FallbackLoop(_, _, _, _, _)
FallbackLoop(led, es, i, added_count, duplicates_count) ==
    IF i > Len(es)
    THEN [table |-> led, es |-> es, added_count |-> added_count,
          duplicates_count |-> duplicates_count]
    ELSE IF UniqueViolation(led, es[i])
    THEN FallbackLoop(led, es, i + 1, added_count, duplicates_count + 1)
    ELSE FallbackLoop(Append(led, TableRow(es[i])),
                      [es EXCEPT ![i].id = Len(led) + 1], i + 1,
                      added_count + 1, duplicates_count)

\* save_nav_entries lines 320-335 on the table `led` with the list `es`
SecondPass(led, cat, es, duplicates_count, invalid_series_count) ==
    LET ws == WithSeriesNumber(cat, es)
        r == InsertAll(Updated(led, ws), Transient(ws))
    IN  IF r.ok
        THEN [raised |-> FALSE, table |-> r.table,
              res |-> <<Len(es), duplicates_count, invalid_series_count>>]
        ELSE [raised |-> TRUE, table |-> led, res |-> <<0, 0, 0>>]

\* one call of save_nav_entries, run without interruption
save_nav_entries(led, cat, b, dist) ==
    LET valid_isins == ValidIsins(cat)
        existing_entries == KeysOf(led)
        staged == EntriesToAdd(b.df, valid_isins, existing_entries,
                               dist, b.emitter)
        dups == CountClass(b.df, valid_isins, existing_entries, "duplicate")
        invs == CountClass(b.df, valid_isins, existing_entries, "invalid")
        bulk == InsertAll(led, staged)
        fb == FallbackLoop(led, staged, 1, 0, dups)
    IN  IF staged = <<>>
        THEN [raised |-> FALSE, table |-> led, res |-> <<0, dups, invs>>]
        ELSE IF bulk.ok
        THEN SecondPass(bulk.table, cat, staged, dups, invs)
        ELSE SecondPass(fb.table, cat, SubSeq(fb.es, 1, fb.added_count),
                        fb.duplicates_count, invs)

\* save_nav_data lines 142-160, run without interruption: the table it
\* leaves, its totals, and whether a call of save_nav_entries raised
RECURSIVE save_nav_data(_, _, _, _, _)
save_nav_data(led, cat, nav_dfs, dist, totals) ==
    IF nav_dfs = <<>>
    THEN [raised |-> FALSE, table |-> led, totals |-> totals]
    ELSE LET r == save_nav_entries(led, cat, Head(nav_dfs), dist)
         IN  IF r.raised
             THEN [raised |-> TRUE, table |-> r.table, totals |-> totals]
             ELSE save_nav_data(r.table, cat, Tail(nav_dfs), dist,
                                <<totals[1] + r.res[1], totals[2] + r.res[2],
                                  totals[3] + r.res[3]>>)

\* the batches of a collection in the order the files were submitted
RECURSIVE InSubmissionOrder(_, _)
InSubmissionOrder(nav_dfs, k) ==
    IF k = 0 THEN <<>>
    ELSE InSubmissionOrder(nav_dfs, k - 1)
            \o SelectSeq(nav_dfs, LAMBDA b : b.file = k)

PersistOver(m) == m.pc \in {"returned", "raised"}

\* what the claim counts as the contents of the ledger
Contents(led) ==
    {<<led[n].isin, led[n].nav_date, led[n].nav_value, led[n].emitter>> :
        n \in DOMAIN led}

C29_OrderIndependent ==
    (/\ col.pc = "returned"
     /\ PersistOver(mgr[1])
     /\ mgr[1].nav_dfs = col.nav_dfs)
        => LET ref == save_nav_data(<<>>, catalog,
                                    InSubmissionOrder(col.nav_dfs, col.n),
                                    mgr[1].dist, <<0, 0, 0>>)
           IN  /\ Contents(ledger) = Contents(ref.table)
               /\ (mgr[1].pc = "raised") = ref.raised
               /\ ~ref.raised
                     => <<mgr[1].total_added, mgr[1].total_duplicates,
                          mgr[1].total_invalids>> = ref.totals

(***************************************************************************)
(* C30.  One zero-hit convention, applied uniformly: a resolver never      *)
(* returns an empty set, and a filter whose tags all have zero Catalog     *)
(* hits resolves to None (unrestricted), as a single string or inside a    *)
(* list, in DBManager.get_target_isins and in                              *)
(* NAVProcessor._get_target_isins alike.                                   *)
(***************************************************************************)
ZeroHit(cat, f) ==
    /\ ~Falsy(f)
    /\ \A item \in Items(f) : IsTag(item) /\ TagHits(cat, item) = {}

C30_ZeroHitUniform ==
    rsv # NoCall
        => /\ rsv.result # SetOf({})
           /\ ZeroHit(catalog, rsv.filter) => rsv.result = None

(***************************************************************************)
(* C31.  For a business period collect_nav_data submits exactly one fetch  *)
(* task for each (source, variant) pair of EMITTERS x FILE_TYPES, fifteen  *)
(* pairs, and no pair is fetched more than once within the call, also      *)
(* when its fetch fails: a task only moves forward, from queued to running *)
(* to done to consumed, and is never queued again.                         *)
(***************************************************************************)
Matrix ==
    {<<EMITTERS[e], FILE_TYPES[t]>> :
        e \in DOMAIN EMITTERS, t \in DOMAIN FILE_TYPES}

PairOf(k) == <<InputFileList[k].emitter, InputFileList[k].file_type>>

Rank(t) ==
    CASE t = "queued" -> 0 [] t = "running" -> 1
      [] t = "done" -> 2 [] t = "consumed" -> 3

\* the tasks of the call in frame c: one per pair of the matrix
OnePerPair(c) ==
    /\ {PairOf(k) : k \in DOMAIN c.task} = Matrix
    /\ Cardinality(DOMAIN c.task) = Cardinality(Matrix)
    /\ Cardinality(Matrix) = 15

C31_OneFetchPerPair ==
    [][(/\ col.impl = "NAVDataCollector"
        /\ col'.pc \in {"collecting", "returned"})
          => /\ OnePerPair(col')
             /\ col.pc = "collecting"
                   => \A k \in DOMAIN col.task :
                         /\ Rank(col'.task[k]) >= Rank(col.task[k])
                         /\ Rank(col'.task[k]) <= Rank(col.task[k]) + 1
             /\ col'.pc = "returned"
                   => \A k \in DOMAIN col'.task :
                         col'.task[k] = "consumed"]_vars

\* the call returned; the fetch of the first pair failed and the file is
\* once in missing_files
C31_Witness ==
    /\ col.impl = "NAVDataCollector"
    /\ col.pc = "returned"
    /\ col.n = 15
    /\ col.remote[1] = Fault
    /\ Cardinality({j \in DOMAIN col.missing_files :
                       col.missing_files[j] = 1}) = 1
    /\ col.nav_dfs # <<>>

(***************************************************************************)
(* C32.  For each file taken from the upload queue _upload_worker calls    *)
(* upload_file at most three times, makes no further attempt after the     *)
(* first success, waits between two failed attempts, and after the third   *)
(* failure gives the file up without raising and goes on to the next       *)
(* queued item.                                                            *)
(***************************************************************************)
\* the entries of the worker's log about file k, in order
LogOf(u, k) == SelectSeq(u.log, LAMBDA e : e.file = k)

Whats(l) == [i \in DOMAIN l |-> l[i].what]

Attempts(l) == {i \in DOMAIN l : l[i].what \in {"ok", "fail"}}

\* what the claim allows the worker to have done with one file so far
RetryPrefixes ==
    {<<"get">>,
     <<"get", "ok", "done">>,
     <<"get", "fail">>,
     <<"get", "fail", "sleep">>,
     <<"get", "fail", "sleep", "ok", "done">>,
     <<"get", "fail", "sleep", "fail">>,
     <<"get", "fail", "sleep", "fail", "sleep">>,
     <<"get", "fail", "sleep", "fail", "sleep", "ok", "done">>,
     <<"get", "fail", "sleep", "fail", "sleep", "fail", "done">>}

C32_BoundedRetry ==
    \A k \in 1..col.n :
        LET l == LogOf(col.up, k)
        IN  (col.up.input_folder_id /\ l # <<>>)
               => /\ Whats(l) \in RetryPrefixes
                  /\ Cardinality(Attempts(l)) <= 3
                  /\ col.up.pc = "stopped" => col.up.item = STOP

\* the first file failed three times and was given up, and the worker
\* then took the second file and uploaded it
C32_Witness ==
    /\ Whats(LogOf(col.up, 1))
          = <<"get", "fail", "sleep", "fail", "sleep", "fail", "done">>
    /\ Whats(LogOf(col.up, 2)) = <<"get", "ok", "done">>
    /\ col.up.log[Len(col.up.log)].file = 2

(***************************************************************************)
(* C33.  Upload queue protocol: STOP is put only after every fetch task    *)
(* has finished, so it follows every queued file; the worker takes each    *)
(* queued item once, marks it done exactly once, and ends on STOP;         *)
(* upload_queue.join() eventually returns, and when _process_nav_files     *)
(* returns every queued file has been handled (uploaded or retries         *)
(* exhausted).  Upload failures never change the batches that              *)
(* _process_nav_files returns.                                             *)
(***************************************************************************)
Count(l, what) == Cardinality({i \in DOMAIN l : l[i].what = what})

\* the items put on the queue so far: taken by the worker or still queued
PutSoFar(u) ==
    [i \in 1..Count(u.log, "get") |->
        SelectSeq(u.log, LAMBDA e : e.what = "get")[i].file]
        \o u.upload_queue

Uploaded(u, k) == Count(LogOf(u, k), "ok") = 1

Exhausted(u, k) == Count(LogOf(u, k), "fail") = max_retries

\* the worker took the file and marked it done without a call of upload_file
PassedOver(u, k) == Whats(LogOf(u, k)) = <<"get", "done">>

\* the state predicate of the protocol; `handled` says when a file counts
\* as handled
Protocol(handled(_, _)) ==
    LET u == col.up
        put == PutSoFar(u)
    IN  /\ \A i \in DOMAIN put :
              put[i] = STOP
                  => /\ i = Len(put)
                     /\ \A k \in 1..col.n : col.task[k] = "consumed"
                     /\ \A k \in 1..col.n :
                           SavedForUpload(col, k)
                               <=> \E j \in 1..(i - 1) : put[j] = k
        /\ \A k \in 0..col.n :
              /\ Cardinality({i \in DOMAIN put : put[i] = k}) <= 1
              /\ Count(LogOf(u, k), "done") <= Count(LogOf(u, k), "get")
              /\ Count(LogOf(u, k), "get") <= 1
        /\ u.unfinished_tasks = Len(put) - Count(u.log, "done")
        /\ u.pc = "stopped" <=> Count(LogOf(u, STOP), "get") = 1
        /\ col.pc = "returned"
              => /\ u.pc = "stopped"
                 /\ u.upload_queue = <<>>
                 /\ \A k \in 1..col.n :
                       SavedForUpload(col, k)
                           => /\ Count(LogOf(u, k), "done") = 1
                              /\ handled(u, k)
                 /\ \A k \in 1..col.n :
                       /\ Cardinality(BatchesOf(col, k))
                             = IF Expected(col, k) = <<>> THEN 0 ELSE 1
                       /\ \A j \in BatchesOf(col, k) :
                             col.nav_dfs[j].df = Expected(col, k)

UploadedOrExhausted(u, k) == Uploaded(u, k) \/ Exhausted(u, k)

C33_UploadProtocol ==
    /\ [](col.up.drive_service => Protocol(UploadedOrExhausted))
    /\ (col.pc = "joining") ~> (col.pc = "returned")

\* C33 with the third way a queued file is handled: the worker passes it
\* over when no input_folder_id is configured
Handled(u, k) ==
    IF u.input_folder_id THEN UploadedOrExhausted(u, k) ELSE PassedOver(u, k)

C33_UploadProtocolAmended ==
    /\ [](col.up.drive_service => Protocol(Handled))
    /\ (col.pc = "joining") ~> (col.pc = "returned")

\* the call returned a batch; of the two queued files one was uploaded at
\* the second attempt and one was given up after three failures
C33_Witness ==
    /\ col.pc = "returned"
    /\ col.nav_dfs # <<>>
    /\ \E k \in 1..col.n :
          Uploaded(col.up, k) /\ Count(LogOf(col.up, k), "fail") = 1
    /\ \E k \in 1..col.n : Exhausted(col.up, k)
    /\ col.up.pc = "stopped"

(***************************************************************************)
(* C34.  At persistence time an identifier is valid exactly when it is in  *)
(* the Catalog, whatever its status: save_nav_entries inserts the records  *)
(* of Inactive and Matured instruments and tallies none of them invalid;   *)
(* it tallies invalid exactly the fresh-key records whose identifier the   *)
(* Catalog does not hold.                                                  *)
(***************************************************************************)
\* the rows of the batch being persisted whose key was fresh at the
\* snapshot and whose identifier the Catalog does not hold
Foreign(m, cat) ==
    LET df == m.nav_dfs[m.k].df
    IN  {i \in DOMAIN df :
            EntryKey(df[i]) \notin m.snap /\ df[i].ISIN \notin DOMAIN cat}

C34_ValidWhateverStatus ==
    \A p \in Procs :
        sv[p].pc = "backfill"
            => LET df == mgr[p].nav_dfs[mgr[p].k].df
               IN  /\ \A i \in DOMAIN df :
                         (df[i].ISIN \in DOMAIN catalog /\ IsFloat(df[i].NAV))
                             => EntryKey(df[i]) \in KeysOf(ledger)
                   /\ sv[p].invalid_series_count
                         = Cardinality(Foreign(mgr[p], catalog))

\* no instrument is Active; the batch held A, B and the unknown X: the
\* rows of A and B are in the ledger and one record was tallied invalid
C34_Witness ==
    /\ sv[1].pc = "backfill"
    /\ catalog["A"].status = "INACTIVE"
    /\ catalog["B"].status = "MATURED"
    /\ KeysOf(ledger) = {<<"A", 1>>, <<"B", 1>>}
    /\ sv[1].invalid_series_count = 1

(***************************************************************************)
(* C35.  The Record Normalizer never raises for any raw table: an          *)
(* unparsable date or value becomes a missing value, and every row with a  *)
(* missing identifier, value or date is removed by the required-field      *)
(* filter, so that the good rows of the artifact are kept and the artifact *)
(* is never discarded as a whole; for NAVDataCollector._clean_dataframe    *)
(* and for the normalization inside NAVProcessor._process_ftp_file.        *)
(***************************************************************************)
\* the raw table of file k with every unreadable cell made a missing value
Normalized(c, k) ==
    LET rows == c.remote[k].rows
    IN  [i \in DOMAIN rows |->
            IF c.impl = "NAVDataCollector"
            THEN [ISIN |-> rows[i].ISIN, Date |-> CleanRow(rows[i]).Date,
                  NAV |-> CleanRow(rows[i]).NAV,
                  file_type |-> FilesOf(c.impl)[k].file_type]
            ELSE CleanRow(rows[i])]

\* its rows that have the three required fields and pass the filters of
\* the implementation
Surviving(c, k) ==
    Filtered(c.impl, SelectSeq(Normalized(c, k), Complete), c.prm)

C35_NormalizerTotal ==
    col.pc = "returned"
        => \A k \in 1..col.n :
              col.remote[k].kind = "table"
                  => /\ Cardinality(BatchesOf(col, k))
                           = IF Surviving(col, k) = <<>> THEN 0 ELSE 1
                     /\ \A j \in BatchesOf(col, k) :
                           col.nav_dfs[j].df = Surviving(col, k)

(***************************************************************************)
(* DatabaseService.fix_missing_series_numbers (db_service.py): the         *)
(* backfill of the series_number of the ledger rows from the Catalog.      *)
(***************************************************************************)
FixDays == 2

\* the text the batch path builds from fixable_isins and series_info
RECURSIVE Whens(_, _)
Whens(cat, isins) ==
    IF isins = <<>> THEN ""
    ELSE "WHEN '" \o Head(isins) \o "' THEN '"
            \o cat[Head(isins)].series_number \o "'"
            \o (IF Tail(isins) = <<>> THEN "" ELSE " ")
            \o Whens(cat, Tail(isins))

case_stmt(cat, isins) == "CASE isin " \o Whens(cat, isins) \o " END"

\* the rows of the ledger without series_number
MissingRows(led) == {r \in DOMAIN led : led[r].series_number = NULL}

isins_with_missing(led) == {led[r].isin : r \in MissingRows(led)}

\* the orders in which the DISTINCT query without ORDER BY can list a set
Listings(S) ==
    {l \in [1..Cardinality(S) -> S] : \A x \in S : \E j \in DOMAIN l : l[j] = x}

\* the identifiers of a list
in_(l) == {l[j] : j \in DOMAIN l}

\* UPDATE ... SET series_number = value WHERE isin IN isins AND
\* series_number IS NULL, with the value bound for every row alike
UpdateMissing(led, isins, value) ==
    [r \in DOMAIN led |->
        IF led[r].isin \in isins /\ led[r].series_number = NULL
        THEN [led[r] EXCEPT !.series_number = value]
        ELSE led[r]]

RowCount(led, isins) ==
    Cardinality({r \in MissingRows(led) : led[r].isin \in isins})

\* the checks and queries before the update
FixStart ==
    /\ fix.pc = "idle"
    /\ IF \E i \in DOMAIN catalog : catalog[i].series_number = NULL
       THEN fix' = [fix EXCEPT !.pc = "returned", !.error = TRUE,
                               !.before = ledger]
       ELSE \E l \in Listings(isins_with_missing(ledger) \cap DOMAIN catalog) :
               fix' = [fix EXCEPT
                          !.pc = "batch", !.before = ledger,
                          !.missing_before = Cardinality(MissingRows(ledger)),
                          !.missing_isins =
                              isins_with_missing(ledger) \ DOMAIN catalog,
                          !.fixable_isins = l]
    /\ UNCHANGED <<catalog, ledger, mgr, sv, rsv, col, run>>

\* the update of all rows in one statement: the database stores the bound
\* value or rejects the statement
FixBatch ==
    /\ fix.pc = "batch"
    /\ \E outcome \in {"stored", "raised"} :
          IF fix.fixable_isins = <<>>
          THEN /\ fix' = [fix EXCEPT !.pc = "returned"]
               /\ UNCHANGED ledger
          ELSE IF outcome = "stored"
          THEN /\ ledger' = UpdateMissing(ledger, in_(fix.fixable_isins),
                                case_stmt(catalog, fix.fixable_isins))
               /\ fix' = [fix EXCEPT
                            !.pc = "returned",
                            !.updated_count =
                                RowCount(ledger, in_(fix.fixable_isins))]
          ELSE /\ fix' = [fix EXCEPT !.pc = "fallback", !.i = 1,
                                     !.error_count = @ + 1]
               /\ UNCHANGED ledger
    /\ UNCHANGED <<catalog, mgr, sv, rsv, col, run>>

\* the fallback: one update for each fixable identifier
FixFallback ==
    /\ fix.pc = "fallback"
    /\ fix.i <= Len(fix.fixable_isins)
    /\ LET isin == fix.fixable_isins[fix.i]
           series_number == catalog[isin].series_number
       IN  IF series_number = ""
           THEN /\ fix' = [fix EXCEPT !.i = @ + 1]
                /\ UNCHANGED ledger
           ELSE /\ ledger' = UpdateMissing(ledger, {isin}, series_number)
                /\ fix' = [fix EXCEPT
                             !.i = @ + 1,
                             !.updated_count = @ + RowCount(ledger, {isin})]
    /\ UNCHANGED <<catalog, mgr, sv, rsv, col, run>>

FixReturn ==
    /\ fix.pc = "fallback"
    /\ fix.i > Len(fix.fixable_isins)
    /\ fix' = [fix EXCEPT !.pc = "returned"]
    /\ UNCHANGED <<catalog, ledger, mgr, sv, rsv, col, run>>

(***************************************************************************)
(* SpecFix: one call of fix_missing_series_numbers on ledgers with and     *)
(* without series_number, against Catalogs with a missing, an empty or a   *)
(* present series_number.                                                  *)
(***************************************************************************)
FixCatalogs ==
    {[i \in {"A", "B"} |->
         [DefaultCatalog[i] EXCEPT
             !.series_number = IF i = "A" THEN a ELSE b]] :
        a \in {"S1", NULL}, b \in {"S2", ""}}

\* the keys of the ledger in the order of their insertion
FixKeys ==
    [k \in 1..(3 * FixDays) |->
        [isin |-> <<"A", "B", "X">>[((k - 1) % 3) + 1],
         day |-> ((k - 1) \div 3) + 1]]

FixLedgers ==
    {SelectSeq([k \in DOMAIN FixKeys |->
                   [StoredRow(FixKeys[k].isin, FixKeys[k].day, 10)
                       EXCEPT !.series_number = c[k]]],
               LAMBDA r : r.series_number # "absent") :
        c \in [DOMAIN FixKeys -> {"absent", NULL, "S0"}]}

InitFix ==
    /\ catalog \in FixCatalogs
    /\ fix = NoFix
    /\ ledger \in FixLedgers
    /\ mgr = [p \in Procs |-> IdleMgr(<<>>, DistOf(p), 0)]
    /\ sv = [p \in Procs |-> NoFrame]
    /\ rsv = NoCall
    /\ col = NoCol
    /\ run = NoRun

NextFix == FixStart \/ FixBatch \/ FixFallback \/ FixReturn

SpecFix == InitFix /\ [][NextFix]_vars

(***************************************************************************)
(* C36: after fix_missing_series_numbers has returned without an error     *)
(* result, every row that had no series_number and whose isin has a        *)
(* Catalog entry holds the series_number of that entry, through the batch  *)
(* update as well as through the fallback, and every row that had a        *)
(* series_number, and every other attribute of every row, is as before.    *)
(***************************************************************************)
C36_Backfilled ==
    (fix.pc = "returned" /\ ~fix.error)
        => /\ DOMAIN ledger = DOMAIN fix.before
           /\ \A r \in DOMAIN ledger :
                 /\ [ledger[r] EXCEPT !.series_number = NULL]
                       = [fix.before[r] EXCEPT !.series_number = NULL]
                 /\ fix.before[r].series_number # NULL
                       => ledger[r].series_number
                             = fix.before[r].series_number
                 /\ (/\ fix.before[r].series_number = NULL
                     /\ ledger[r].isin \in DOMAIN catalog)
                       => ledger[r].series_number
                             = catalog[ledger[r].isin].series_number

====
